---- MODULE Spec2Model ----
(***************************************************************************)
(* Model of the hybrid ATS scoring and semantic matching subsystem of      *)
(* AI_resume_analyzer: the embedding cache (semantic/cache.py), the        *)
(* embedding generator (semantic/embeddings.py), the semantic scorer       *)
(* (semantic/semantic_ats.py) and the keyword / hybrid scorers             *)
(* (semantic/hybrid_ats.py).                                               *)
(*                                                                         *)
(* Texts are sequences of one-character strings, so that lower() and the   *)
(* substring test of the keyword scorer are computed, not assumed.         *)
(***************************************************************************)
EXTENDS Integers, Sequences, FiniteSets, TLC

\* ------------------------------------------------------------------------
\* Bounds and configuration
\* ------------------------------------------------------------------------

\* config.EMBEDDING_CACHE_SIZE is 1000; the model runs the same code with a
\* small capacity so that the cache fills and evicts.
EMBEDDING_CACHE_SIZE == 2

\* EmbeddingCache(max_size=...): the capacity the instance was built with.
max_size == 2

ENABLE_CACHE == TRUE

\* At most MaxGets lookups are counted between two clears.
MaxGets == 3

\* Python's None (an absent embedding, no key)
None == <<>>

\* ------------------------------------------------------------------------
\* Texts
\* ------------------------------------------------------------------------

SkillPy == <<"p", "y">>
SkillSq == <<"s", "q">>
SkillMl == <<"m", "l">>

ResumeA == <<"P", "y", " ", "d", "e", "v">>
ResumeB == <<"s", "q", " ", "m", "l">>

SkillNames == {SkillPy, SkillSq, SkillMl}
ResumeTexts == {ResumeA, ResumeB}
AllTexts == ResumeTexts \cup SkillNames

\* ------------------------------------------------------------------------
\* semantic/cache.py : the OrderedDict and its operations
\* An OrderedDict is a sequence of [key, val] records, oldest first.
\* ------------------------------------------------------------------------

\* _hash_text: the md5 digest of the text; modelled as an injective tag of
\* the text (no two texts of the model collide).
hash_text(text) == <<"md5", text>>

Keys(c) == {c[i].key : i \in DOMAIN c}

HasKey(c, key) == \E i \in DOMAIN c : c[i].key = key

IndexOf(c, key) == CHOOSE i \in DOMAIN c : c[i].key = key

\* c[key]
GetItem(c, key) == c[IndexOf(c, key)].val

\* c.pop(key)
PopKey(c, key) ==
  LET i == IndexOf(c, key)
  IN  SubSeq(c, 1, i - 1) \o SubSeq(c, i + 1, Len(c))

\* c.move_to_end(key)
MoveStays(c, key) == c

move_to_end(c, key) ==
  LET i == IndexOf(c, key)
  IN  Append(PopKey(c, key), c[i])

\* c[key] = val : an existing key keeps its position, a new key goes last
SetItem(c, key, val) ==
  IF HasKey(c, key)
  THEN [c EXCEPT ![IndexOf(c, key)].val = val]
  ELSE Append(c, [key |-> key, val |-> val])

\* next(iter(c))
OldestKey(c) == c[1].key

\* The embedding the model computes for a text: identified by the text it
\* encodes and by whether it was normalized to unit length.
Encode(text, normalize) == <<text, normalize>>

TextOf(embedding) == embedding[1]

IsUnit(embedding) == embedding[2]

EmbeddingsOf(text) == {Encode(text, TRUE), Encode(text, FALSE)}

\* get_cached_embedding(text): the new store, the new counters, the result
PopsOnHit(c, st, text) ==
  IF HasKey(c, hash_text(text))
  THEN [cache  |-> PopKey(c, hash_text(text)),
        stats  |-> [st EXCEPT !.hits = @ + 1],
        result |-> GetItem(c, hash_text(text))]
  ELSE [cache  |-> c,
        stats  |-> [st EXCEPT !.misses = @ + 1],
        result |-> None]

get_cached_embedding(c, st, text) ==
  LET key == hash_text(text)
  IN  IF ~ENABLE_CACHE
      THEN [cache |-> c, stats |-> st, result |-> None]
      ELSE IF HasKey(c, key)
           THEN [cache  |-> move_to_end(c, key),
                 stats  |-> [st EXCEPT !.hits = @ + 1],
                 result |-> GetItem(c, key)]
           ELSE [cache  |-> c,
                 stats  |-> [st EXCEPT !.misses = @ + 1],
                 result |-> None]

\* The eviction step of set_cached_embedding (lines 57-61)
NoEviction(c, cap) == [cache |-> c, popped |-> None]

EvictIfFull(c, cap) ==
  IF Len(c) >= cap
  THEN [cache |-> PopKey(c, OldestKey(c)), popped |-> OldestKey(c)]
  ELSE [cache |-> c, popped |-> None]

\* set_cached_embedding(text, embedding); popped is the key line 60 removed
set_cached_embedding(c, st, text, embedding) ==
  LET key == hash_text(text)
  IN  IF ~ENABLE_CACHE
      THEN [cache |-> c, stats |-> st, popped |-> None]
      ELSE LET ev    == EvictIfFull(c, EMBEDDING_CACHE_SIZE)
               after == SetItem(ev.cache, key, embedding)
           IN  [cache  |-> after,
                stats  |-> [st EXCEPT !.size = Len(after)],
                popped |-> ev.popped]

\* clear_cache()
ClearedStats == [hits |-> 0, misses |-> 0, size |-> 0]

\* EmbeddingCache.get
EmbeddingCache_get(c, st, text) ==
  LET key == hash_text(text)
  IN  IF HasKey(c, key)
      THEN [cache  |-> move_to_end(c, key),
            stats  |-> [st EXCEPT !.hits = @ + 1],
            result |-> GetItem(c, key)]
      ELSE [cache  |-> c,
            stats  |-> [st EXCEPT !.misses = @ + 1],
            result |-> None]

\* EmbeddingCache.set; popitem(last=False) removes the first item
EmbeddingCache_set(c, st, text, embedding) ==
  LET key   == hash_text(text)
      ev    == EvictIfFull(c, max_size)
      after == SetItem(ev.cache, key, embedding)
  IN  [cache |-> after, stats |-> st, popped |-> ev.popped]

EmptyClassStats == [hits |-> 0, misses |-> 0]

\* ------------------------------------------------------------------------
\* State
\* ------------------------------------------------------------------------

VARIABLES
  embedding_cache,  \* cache._embedding_cache
  cache_stats,      \* cache._cache_stats
  cache,            \* EmbeddingCache.cache of one instance
  stats,            \* EmbeddingCache.stats of that instance
  target,           \* which of the two caches the direct cache calls address
  recency,          \* texts' keys in the order of their last access
  ret,              \* the last direct cache call and what it returned
  pc,               \* per thread: the line of get/set it is about to run
  tl,               \* per thread: the locals of its running call
  done,             \* what the threads' finished calls add up to
  model_instance,   \* embeddings._model_instance
  eret,             \* the last embed_text call and what it returned
  eprev,            \* the call before it
  sret              \* the last scoring call and what it returned

directVars == <<target, recency, ret>>

threadVars == <<pc, tl, done>>

embedVars == <<model_instance, eret, eprev>>

scoreVars == <<sret>>

vars == <<embedding_cache, cache_stats, cache, stats, directVars,
          threadVars, embedVars, scoreVars>>

Threads == {"t1", "t2"}

NoLocals == [op |-> "none", text |-> <<>>, oldest_key |-> None, tmp |-> 0]

NothingDone == [calls |-> 0, gets |-> 0, raised |-> FALSE, evictedOther |-> FALSE]

NoEmbedCall ==
  [op |-> "none", texts |-> <<>>, is_single |-> FALSE, normalize |-> TRUE,
   use_cache |-> TRUE, outcome |-> "none", result |-> <<>>,
   inferred |-> FALSE, batch |-> <<>>, hits |-> 0, misses |-> 0]

NoEarlierEmbed == [texts |-> <<>>, is_single |-> FALSE, result |-> <<>>]

NoScoreCall == [op |-> "none", args |-> <<>>, res |-> <<>>, before |-> <<>>]

\* ------------------------------------------------------------------------
\* Direct calls on a cache: get / set / clear
\* ------------------------------------------------------------------------

NoCall == [op |-> "none", text |-> <<>>, result |-> None, popped |-> None,
           before |-> <<>>, statsBefore |-> EmptyClassStats, lruBefore |-> None]

\* recency bookkeeping: an access makes the key the most recent one
Without(r, key) == SelectSeq(r, LAMBDA k : k # key)

Touch(r, key) == Append(Without(r, key), key)

\* the least recently accessed of the cached entries
LeastRecent(r) == IF r = <<>> THEN None ELSE Head(r)

\* after a set: the removed entry is forgotten; a key that was not in the
\* store when it was stored has been inserted; an overwritten key has not
AfterSet(r, popped, key) ==
  LET r1 == IF popped = None THEN r ELSE Without(r, popped)
  IN  IF \E i \in DOMAIN r1 : r1[i] = key THEN r1 ELSE Append(r1, key)

Capacity == IF target = "module" THEN EMBEDDING_CACHE_SIZE ELSE max_size

TargetCache == IF target = "module" THEN embedding_cache ELSE cache

TargetStats == IF target = "module" THEN cache_stats ELSE stats

TargetGet(text) ==
  IF target = "module"
  THEN get_cached_embedding(embedding_cache, cache_stats, text)
  ELSE EmbeddingCache_get(cache, stats, text)

CallRecord(op, text, result, popped) ==
  [op |-> op, text |-> text, result |-> result, popped |-> popped,
   before |-> TargetCache,
   statsBefore |-> [hits |-> TargetStats.hits, misses |-> TargetStats.misses],
   lruBefore |-> LeastRecent(recency)]

ModGet(text) ==
  /\ target = "module"
  /\ cache_stats.hits + cache_stats.misses < MaxGets
  /\ LET r == get_cached_embedding(embedding_cache, cache_stats, text)
     IN  /\ embedding_cache' = r.cache
         /\ cache_stats' = r.stats
         /\ recency' = IF r.result # None
                       THEN Touch(recency, hash_text(text)) ELSE recency
         /\ ret' = CallRecord("get", text, r.result, None)
  /\ UNCHANGED <<cache, stats, target, threadVars, embedVars, scoreVars>>

ModSet(text, embedding) ==
  /\ target = "module"
  /\ LET r == set_cached_embedding(embedding_cache, cache_stats, text, embedding)
     IN  /\ embedding_cache' = r.cache
         /\ cache_stats' = r.stats
         /\ recency' = AfterSet(recency, r.popped, hash_text(text))
         /\ ret' = CallRecord("set", text, None, r.popped)
  /\ UNCHANGED <<cache, stats, target, threadVars, embedVars, scoreVars>>

\* clear_cache()
ClearKeepsCounters ==
  /\ target = "module"
  /\ embedding_cache' = <<>>
  /\ cache_stats' = [cache_stats EXCEPT !.size = 0]
  /\ recency' = <<>>
  /\ ret' = CallRecord("clear", <<>>, None, None)
  /\ UNCHANGED <<cache, stats, target, threadVars, embedVars, scoreVars>>

ModClear ==
  /\ target = "module"
  /\ embedding_cache' = <<>>
  /\ cache_stats' = ClearedStats
  /\ recency' = <<>>
  /\ ret' = CallRecord("clear", <<>>, None, None)
  /\ UNCHANGED <<cache, stats, target, threadVars, embedVars, scoreVars>>

ClsGet(text) ==
  /\ target = "class"
  /\ stats.hits + stats.misses < MaxGets
  /\ LET r == EmbeddingCache_get(cache, stats, text)
     IN  /\ cache' = r.cache
         /\ stats' = r.stats
         /\ recency' = IF r.result # None
                       THEN Touch(recency, hash_text(text)) ELSE recency
         /\ ret' = CallRecord("get", text, r.result, None)
  /\ UNCHANGED <<embedding_cache, cache_stats, target, threadVars, embedVars, scoreVars>>

ClsSet(text, embedding) ==
  /\ target = "class"
  /\ LET r == EmbeddingCache_set(cache, stats, text, embedding)
     IN  /\ cache' = r.cache
         /\ stats' = r.stats
         /\ recency' = AfterSet(recency, r.popped, hash_text(text))
         /\ ret' = CallRecord("set", text, None, r.popped)
  /\ UNCHANGED <<embedding_cache, cache_stats, target, threadVars, embedVars, scoreVars>>

ClsClear ==
  /\ target = "class"
  /\ cache' = <<>>
  /\ stats' = EmptyClassStats
  /\ recency' = <<>>
  /\ ret' = CallRecord("clear", <<>>, None, None)
  /\ UNCHANGED <<embedding_cache, cache_stats, target, threadVars, embedVars, scoreVars>>

\* the state of the process after import: both stores empty, no model loaded
Fresh ==
  /\ embedding_cache = <<>>
  /\ cache_stats = ClearedStats
  /\ cache = <<>>
  /\ stats = EmptyClassStats
  /\ recency = <<>>
  /\ ret = NoCall
  /\ pc = [t \in Threads |-> "idle"]
  /\ tl = [t \in Threads |-> NoLocals]
  /\ done = NothingDone
  /\ model_instance = None
  /\ eret = NoEmbedCall
  /\ eprev = NoEarlierEmbed
  /\ sret = NoScoreCall

Init ==
  /\ Fresh
  /\ target \in {"module", "class"}

Next ==
  \/ \E text \in AllTexts : ModGet(text)
  \/ \E text \in AllTexts : \E e \in EmbeddingsOf(text) : ModSet(text, e)
  \/ ModClear
  \/ \E text \in AllTexts : ClsGet(text)
  \/ \E text \in AllTexts : \E e \in EmbeddingsOf(text) : ClsSet(text, e)
  \/ ClsClear

Spec == Init /\ [][Next]_vars

\* ------------------------------------------------------------------------
\* Cache properties
\* ------------------------------------------------------------------------

\* the last call was a set of a text that was not cached, on a full cache
SetOnFull ==
  /\ ret.op = "set"
  /\ Len(ret.before) = Capacity
  /\ ~HasKey(ret.before, hash_text(ret.text))

\* C1: a set of an uncached text on a cache holding Capacity entries removes
\* exactly one entry, the least recently accessed one (accessed = inserted
\* or hit by a get), keeps every other entry, and a get of the evicted text
\* then returns absent.
C1_EvictsLeastRecentlyUsed ==
  SetOnFull =>
    /\ ret.lruBefore # None
    /\ Keys(ret.before) \ Keys(TargetCache) = {ret.lruBefore}
    /\ Len(TargetCache) = Capacity
    /\ \A i \in DOMAIN ret.before :
         ret.before[i].key # ret.lruBefore =>
           /\ HasKey(TargetCache, ret.before[i].key)
           /\ GetItem(TargetCache, ret.before[i].key) = ret.before[i].val
    /\ TargetGet(ret.lruBefore[2]).result = None

\* a full cache took a new text after an earlier get hit had reordered it
C1_Witness ==
  /\ SetOnFull
  /\ ret.popped # None
  /\ ret.popped = ret.lruBefore
  /\ ret.statsBefore.hits > 0
  /\ ~HasKey(TargetCache, ret.popped)

\* C2: the number of cached entries never exceeds the configured capacity,
\* for the module-level cache and for an EmbeddingCache instance.
C2_SizeWithinCapacity ==
  /\ Len(embedding_cache) <= EMBEDDING_CACHE_SIZE
  /\ Len(cache) <= max_size
  /\ Cardinality(Keys(embedding_cache)) = Len(embedding_cache)
  /\ Cardinality(Keys(cache)) = Len(cache)

\* a set on a full cache has just evicted, and the cache is full again
C2_Witness ==
  /\ ret.op = "set"
  /\ ret.popped # None
  /\ Len(ret.before) = Capacity
  /\ Len(TargetCache) = Capacity

\* ------------------------------------------------------------------------
\* Threads calling get_cached_embedding / set_cached_embedding concurrently.
\* The functions take no lock (cache.py has none), so another thread may run
\* between any two of their lines; one step is one dictionary operation or
\* one read or write of a counter.
\* ------------------------------------------------------------------------

\* calls each run of the threads makes in total
MaxCalls == 4

Idle(t) == pc[t] = "idle"

Goto(t, label) == pc' = [pc EXCEPT ![t] = label]

\* the call returns (or raises): the thread is idle again
Return(t, isGet, raised, evictedOther) ==
  /\ pc' = [pc EXCEPT ![t] = "idle"]
  /\ tl' = [tl EXCEPT ![t] = NoLocals]
  /\ done' = [done EXCEPT !.gets = IF isGet THEN @ + 1 ELSE @,
                          !.raised = @ \/ raised,
                          !.evictedOther = @ \/ evictedOther]

ThreadFrame == UNCHANGED <<cache, stats, directVars, embedVars, scoreVars>>

\* a thread enters get_cached_embedding(text) or set_cached_embedding(text, e)
T_Call(t, op, text) ==
  /\ Idle(t)
  /\ done.calls < MaxCalls
  /\ Goto(t, IF op = "get" THEN "g36" ELSE "s57")
  /\ tl' = [tl EXCEPT ![t] = [op |-> op, text |-> text,
                              oldest_key |-> None, tmp |-> 0]]
  /\ done' = [done EXCEPT !.calls = @ + 1]
  /\ UNCHANGED <<embedding_cache, cache_stats>>
  /\ ThreadFrame

\* line 36: if key in _embedding_cache
T_g36(t) ==
  /\ pc[t] = "g36"
  /\ Goto(t, IF HasKey(embedding_cache, hash_text(tl[t].text))
             THEN "g38" ELSE "g43r")
  /\ UNCHANGED <<embedding_cache, cache_stats, tl, done>>
  /\ ThreadFrame

\* line 38: move_to_end(key); KeyError when the key has gone meanwhile
T_g38(t) ==
  /\ pc[t] = "g38"
  /\ LET key == hash_text(tl[t].text)
     IN  IF HasKey(embedding_cache, key)
         THEN /\ embedding_cache' = move_to_end(embedding_cache, key)
              /\ Goto(t, "g39r")
              /\ UNCHANGED <<tl, done>>
         ELSE /\ Return(t, FALSE, TRUE, FALSE)
              /\ UNCHANGED embedding_cache
  /\ UNCHANGED cache_stats
  /\ ThreadFrame

\* line 39, the read of _cache_stats['hits']
T_g39r(t) ==
  /\ pc[t] = "g39r"
  /\ tl' = [tl EXCEPT ![t].tmp = cache_stats.hits]
  /\ Goto(t, "g39w")
  /\ UNCHANGED <<embedding_cache, cache_stats, done>>
  /\ ThreadFrame

\* line 39, the write of _cache_stats['hits']
T_g39w(t) ==
  /\ pc[t] = "g39w"
  /\ cache_stats' = [cache_stats EXCEPT !.hits = tl[t].tmp + 1]
  /\ Goto(t, "g41")
  /\ UNCHANGED <<embedding_cache, tl, done>>
  /\ ThreadFrame

\* line 41: return _embedding_cache[key]; KeyError when the key has gone
T_g41(t) ==
  /\ pc[t] = "g41"
  /\ Return(t, TRUE, ~HasKey(embedding_cache, hash_text(tl[t].text)), FALSE)
  /\ UNCHANGED <<embedding_cache, cache_stats>>
  /\ ThreadFrame

\* line 43, the read of _cache_stats['misses']
T_g43r(t) ==
  /\ pc[t] = "g43r"
  /\ tl' = [tl EXCEPT ![t].tmp = cache_stats.misses]
  /\ Goto(t, "g43w")
  /\ UNCHANGED <<embedding_cache, cache_stats, done>>
  /\ ThreadFrame

\* line 43, the write of _cache_stats['misses'], and line 44: return None
T_g43w(t) ==
  /\ pc[t] = "g43w"
  /\ cache_stats' = [cache_stats EXCEPT !.misses = tl[t].tmp + 1]
  /\ Return(t, TRUE, FALSE, FALSE)
  /\ UNCHANGED embedding_cache
  /\ ThreadFrame

\* line 57: if len(_embedding_cache) >= EMBEDDING_CACHE_SIZE
T_s57(t) ==
  /\ pc[t] = "s57"
  /\ Goto(t, IF Len(embedding_cache) >= EMBEDDING_CACHE_SIZE
             THEN "s59" ELSE "s64")
  /\ UNCHANGED <<embedding_cache, cache_stats, tl, done>>
  /\ ThreadFrame

\* line 59: oldest_key = next(iter(_embedding_cache)); StopIteration when
\* the other threads have emptied the store meanwhile
T_s59(t) ==
  /\ pc[t] = "s59"
  /\ IF embedding_cache = <<>>
     THEN Return(t, FALSE, TRUE, FALSE)
     ELSE /\ tl' = [tl EXCEPT ![t].oldest_key = OldestKey(embedding_cache)]
          /\ Goto(t, "s60")
          /\ UNCHANGED done
  /\ UNCHANGED <<embedding_cache, cache_stats>>
  /\ ThreadFrame

\* line 60: _embedding_cache.pop(oldest_key); KeyError when it has gone
T_s60(t) ==
  /\ pc[t] = "s60"
  /\ IF HasKey(embedding_cache, tl[t].oldest_key)
     THEN /\ embedding_cache' = PopKey(embedding_cache, tl[t].oldest_key)
          /\ done' = [done EXCEPT !.evictedOther =
                        @ \/ tl[t].oldest_key # OldestKey(embedding_cache)]
          /\ Goto(t, "s64")
          /\ UNCHANGED tl
     ELSE /\ Return(t, FALSE, TRUE, FALSE)
          /\ UNCHANGED embedding_cache
  /\ UNCHANGED cache_stats
  /\ ThreadFrame

\* line 64: _embedding_cache[key] = embedding
T_s64(t) ==
  /\ pc[t] = "s64"
  /\ embedding_cache' = SetItem(embedding_cache, hash_text(tl[t].text),
                                Encode(tl[t].text, TRUE))
  /\ Goto(t, "s65")
  /\ UNCHANGED <<cache_stats, tl, done>>
  /\ ThreadFrame

\* line 65: _cache_stats['size'] = len(_embedding_cache)
T_s65(t) ==
  /\ pc[t] = "s65"
  /\ cache_stats' = [cache_stats EXCEPT !.size = Len(embedding_cache)]
  /\ Return(t, FALSE, FALSE, FALSE)
  /\ UNCHANGED embedding_cache
  /\ ThreadFrame

ThreadTexts == SkillNames

InitThreads ==
  /\ Fresh
  /\ target = "module"

NextThreads ==
  \E t \in Threads :
    \/ \E op \in {"get", "set"} : \E text \in ThreadTexts : T_Call(t, op, text)
    \/ T_g36(t)
    \/ T_g38(t)
    \/ T_g39r(t)
    \/ T_g39w(t)
    \/ T_g41(t)
    \/ T_g43r(t)
    \/ T_g43w(t)
    \/ T_s57(t)
    \/ T_s59(t)
    \/ T_s60(t)
    \/ T_s64(t)
    \/ T_s65(t)

SpecThreads == InitThreads /\ [][NextThreads]_vars

\* C3: with threads calling get and set concurrently, each call acts as one
\* atomic step: the store never holds more than EMBEDDING_CACHE_SIZE entries,
\* a set never evicts an entry other than the oldest one, no call fails, and
\* once every call has returned hits + misses counts every get.
C3_CallsAreAtomic ==
  /\ Len(embedding_cache) <= EMBEDDING_CACHE_SIZE
  /\ ~done.evictedOther
  /\ ~done.raised
  /\ (\A t \in Threads : Idle(t)) =>
        cache_stats.hits + cache_stats.misses = done.gets

\* ------------------------------------------------------------------------
\* semantic/embeddings.py : get_model and embed_text
\* ------------------------------------------------------------------------

Loaded == <<"SentenceTransformer">>

\* get_model(): loads on first use; loadOk tells whether the load succeeds,
\* loaded whether SentenceTransformer(EMBEDDING_MODEL) was called
LoadsEveryTime(instance, loadOk) ==
  IF loadOk
  THEN [instance |-> Loaded, raised |-> FALSE, loaded |-> TRUE]
  ELSE [instance |-> None, raised |-> TRUE, loaded |-> TRUE]

get_model(instance, loadOk) ==
  IF instance = None
  THEN IF loadOk
       THEN [instance |-> Loaded, raised |-> FALSE, loaded |-> TRUE]
       ELSE [instance |-> None, raised |-> TRUE, loaded |-> TRUE]
  ELSE [instance |-> instance, raised |-> FALSE, loaded |-> FALSE]

\* lines 58-64: the lookups, text by text; found holds (idx, cached) pairs
EmbedsEveryText(c, st, texts, i) ==
  [cache |-> c, stats |-> [st EXCEPT !.misses = @ + Len(texts)], found |-> <<>>,
   texts_to_embed |-> texts,
   indices_to_embed |-> [k \in 1..Len(texts) |-> k - 1]]

RECURSIVE LookupFrom(_, _, _, _)
LookupFrom(c, st, texts, i) ==
  IF i > Len(texts)
  THEN [cache |-> c, stats |-> st, found |-> <<>>,
        texts_to_embed |-> <<>>, indices_to_embed |-> <<>>]
  ELSE LET g    == get_cached_embedding(c, st, texts[i])
           rest == LookupFrom(g.cache, g.stats, texts, i + 1)
       IN  IF g.result # None
           THEN [rest EXCEPT !.found = <<<<i - 1, g.result>>>> \o @]
           ELSE [rest EXCEPT !.texts_to_embed = <<texts[i]>> \o @,
                             !.indices_to_embed = <<i - 1>> \o @]

\* lines 66-67: no cache, every text is embedded
NoLookup(c, st, texts) ==
  [cache |-> c, stats |-> st, found |-> <<>>,
   texts_to_embed |-> texts,
   indices_to_embed |-> [i \in 1..Len(texts) |-> i - 1]]

\* lines 72-76: model.encode(texts_to_embed, normalize_embeddings=normalize)
encode(texts_to_embed, normalize) ==
  [i \in 1..Len(texts_to_embed) |-> Encode(texts_to_embed[i], normalize)]

\* lines 80-81: for txt, emb in zip(...): set_cached_embedding(txt, emb)
StoreNothing(c, st, txts, embs, i) == [cache |-> c, stats |-> st]

RECURSIVE StoreFrom(_, _, _, _, _)
StoreFrom(c, st, txts, embs, i) ==
  IF i > Len(txts)
  THEN [cache |-> c, stats |-> st]
  ELSE LET r == set_cached_embedding(c, st, txts[i], embs[i])
       IN  StoreFrom(r.cache, r.stats, txts, embs, i + 1)

\* line 92: embeddings.sort(key=lambda x: x[0]); the indices are distinct
Unsorted(pairs) == pairs

SortByIndex(pairs) ==
  [j \in 1..Len(pairs) |->
     CHOOSE p \in {pairs[k] : k \in DOMAIN pairs} :
       Cardinality({k \in DOMAIN pairs : pairs[k][1] < p[1]}) = j - 1]

\* lines 69-99 of embed_text, after the lookups: inference for the texts
\* that were not found, storing, and the result in the order of the indices
EmbedMissing(looked, instance, normalize, caching, inferOk) ==
  LET batch == looked.texts_to_embed IN
  IF batch = <<>>
  THEN [cache |-> looked.cache, stats |-> looked.stats,
        instance |-> instance, outcome |-> "ok",
        result |-> [j \in 1..Len(looked.found) |->
                      SortByIndex(looked.found)[j][2]],
        inferred |-> FALSE, batch |-> <<>>]
  ELSE IF ~inferOk
  THEN [cache |-> looked.cache, stats |-> looked.stats,
        instance |-> instance, outcome |-> "RuntimeError",
        result |-> <<>>, inferred |-> TRUE, batch |-> batch]
  ELSE
  LET new_embeddings == encode(batch, normalize)
      stored == IF caching
                THEN StoreFrom(looked.cache, looked.stats, batch,
                               new_embeddings, 1)
                ELSE [cache |-> looked.cache, stats |-> looked.stats]
      pairs  == looked.found \o
                [k \in 1..Len(batch) |->
                   <<looked.indices_to_embed[k], new_embeddings[k]>>]
      sorted == SortByIndex(pairs)
  IN  [cache |-> stored.cache, stats |-> stored.stats,
       instance |-> instance, outcome |-> "ok",
       result |-> [j \in 1..Len(sorted) |-> sorted[j][2]],
       inferred |-> TRUE, batch |-> batch]

\* embed_text(text, normalize, use_cache) on the list form of its argument.
\* inferOk tells whether model.encode returns (else it raises).
embed_text(c, st, instance, texts, normalize, use_cache, loadOk, inferOk) ==
  LET quiet == [cache |-> c, stats |-> st, instance |-> instance,
                outcome |-> "ok", result |-> <<>>,
                inferred |-> FALSE, batch |-> <<>>]
  IN
  IF texts = <<>>
  THEN quiet
  ELSE
  LET m == get_model(instance, loadOk) IN
  IF m.raised
  THEN [quiet EXCEPT !.outcome = "RuntimeError"]
  ELSE EmbedMissing(IF use_cache /\ ENABLE_CACHE
                    THEN LookupFrom(c, st, texts, 1)
                    ELSE NoLookup(c, st, texts),
                    m.instance, normalize, use_cache /\ ENABLE_CACHE, inferOk)

\* the longest list of texts one embed_text call is given
MaxBatch == 2

EmbedTexts == {ResumeA, SkillPy, SkillSq}

TextLists == UNION {[1..n -> EmbedTexts] : n \in 0..MaxBatch}

EmbedFrame == UNCHANGED <<cache, stats, directVars, threadVars, scoreVars>>

\* is the call embed(text): one text, normalize=True, use_cache=True
IsEmbedOfOne(r) ==
  r.op = "embed" /\ r.is_single /\ r.normalize /\ r.use_cache

\* a call of embed_text; is_single: the argument is a str, not a list
EmbedCall(texts, is_single, normalize, use_cache, loadOk, inferOk) ==
  /\ is_single => Len(texts) = 1
  /\ cache_stats.hits + cache_stats.misses + Len(texts) <= MaxGets
  /\ LET r == embed_text(embedding_cache, cache_stats, model_instance,
                         texts, normalize, use_cache, loadOk, inferOk)
     IN  /\ embedding_cache' = r.cache
         /\ cache_stats' = r.stats
         /\ model_instance' = r.instance
         /\ eret' = [op |-> "embed", texts |-> texts, is_single |-> is_single,
                     normalize |-> normalize, use_cache |-> use_cache,
                     outcome |-> r.outcome, result |-> r.result,
                     inferred |-> r.inferred, batch |-> r.batch,
                     hits |-> r.stats.hits - cache_stats.hits,
                     misses |-> r.stats.misses - cache_stats.misses]
         /\ eprev' = IF IsEmbedOfOne(eret) /\ eret.outcome = "ok"
                     THEN [texts |-> eret.texts, is_single |-> TRUE,
                           result |-> eret.result]
                     ELSE NoEarlierEmbed
  /\ EmbedFrame

\* clear_embedding_cache()
EmbedClear ==
  /\ embedding_cache' = <<>>
  /\ cache_stats' = ClearedStats
  /\ eret' = [NoEmbedCall EXCEPT !.op = "clear"]
  /\ eprev' = NoEarlierEmbed
  /\ UNCHANGED model_instance
  /\ EmbedFrame

InitEmbed ==
  /\ Fresh
  /\ target = "module"

NextEmbed ==
  \/ \E texts \in TextLists : \E is_single, normalize, use_cache \in BOOLEAN :
       \E loadOk, inferOk \in BOOLEAN :
         EmbedCall(texts, is_single, normalize, use_cache, loadOk, inferOk)
  \/ EmbedClear

SpecEmbed == InitEmbed /\ [][NextEmbed]_vars

\* C4: embed(text) called twice in a row with the same text returns the same
\* vector both times, and the second call is a cache hit: one more hit, no
\* more misses, no model inference.
C4_SecondEmbedIsHit ==
  (/\ IsEmbedOfOne(eret)
   /\ eret.outcome = "ok"
   /\ eprev.is_single
   /\ eprev.texts = eret.texts)
  => /\ eret.result = eprev.result
     /\ eret.hits = 1
     /\ eret.misses = 0
     /\ ~eret.inferred

\* the first call missed and embedded the text, the second one returned it
C4_Witness ==
  /\ IsEmbedOfOne(eret)
  /\ eret.outcome = "ok"
  /\ eprev.is_single
  /\ eprev.texts = eret.texts
  /\ eret.result = eprev.result
  /\ eret.hits = 1
  /\ cache_stats.misses > 0

\* C5: embed returns one vector per input text, the i-th being the
\* embedding of the i-th text, whatever mix of hits and misses it met.
C5_ResultsInInputOrder ==
  (eret.op = "embed" /\ eret.outcome = "ok") =>
    /\ Len(eret.result) = Len(eret.texts)
    /\ \A i \in DOMAIN eret.texts : TextOf(eret.result[i]) = eret.texts[i]

\* a list whose first text missed and whose second text hit
C5_Witness ==
  /\ eret.op = "embed"
  /\ eret.outcome = "ok"
  /\ Len(eret.texts) = 2
  /\ eret.texts[1] # eret.texts[2]
  /\ eret.batch = <<eret.texts[1]>>
  /\ eret.hits = 1
  /\ eret.misses = 1
  /\ TextOf(eret.result[1]) = eret.texts[1]

\* ------------------------------------------------------------------------
\* Python float arithmetic: int((m / t) * 100) on IEEE-754 binary64.
\* A float is [h, mid, lo, exp]: the 53-bit significand
\*     h * 2^36 + mid * 2^18 + lo      (2^16 <= h < 2^17; mid, lo < 2^18)
\* times 2^exp.  The significand is kept in three limbs because it does not
\* fit a machine integer.  Operands m, t are integers in 1..8191.
\* ------------------------------------------------------------------------

Limb == 2^18

\* the k with den * 2^k <= num < den * 2^(k+1), for num >= den
ShiftDown(num, den) ==
  CHOOSE k \in 0..13 : den * 2^k <= num /\ num < den * 2^(k + 1)

\* the least k with num * 2^k >= den, for num < den
ShiftUp(num, den) ==
  CHOOSE k \in 0..13 : num * 2^k >= den /\ (k = 0 \/ num * 2^(k - 1) < den)

\* number of bits of p > 0
BitLength(p) == CHOOSE n \in 1..31 : 2^(n - 1) <= p /\ (n = 31 \/ p < 2^n)

\* round to nearest, ties to even: the significand goes up by one when the
\* first dropped bit is set and (a lower dropped bit is set or it is odd)
RoundNearestEven(h, mid, lo, exp, round, sticky) ==
  IF ~(round = 1 /\ (sticky \/ lo % 2 = 1))
  THEN [h |-> h, mid |-> mid, lo |-> lo, exp |-> exp]
  ELSE LET lo1  == (lo + 1) % Limb
           c1   == (lo + 1) \div Limb
           mid1 == (mid + c1) % Limb
           c2   == (mid + c1) \div Limb
           h1   == h + c2
       IN  IF h1 = 2^17
           THEN [h |-> 2^16, mid |-> 0, lo |-> 0, exp |-> exp + 1]
           ELSE [h |-> h1, mid |-> mid1, lo |-> lo1, exp |-> exp]

\* m / t for integers m > 0, t > 0 (true division, correctly rounded)
FloatDiv(m, t) ==
  LET down == IF m >= t THEN ShiftDown(m, t) ELSE 0
      up   == IF m >= t THEN 0 ELSE ShiftUp(m, t)
      num  == m * 2^up
      den  == t * 2^down
      \* num / den is in [1, 2); three limbs of its fraction, then the rest
      r0   == num - den
      d1   == (r0 * Limb) \div den
      r1   == (r0 * Limb) % den
      d2   == (r1 * Limb) \div den
      r2   == (r1 * Limb) % den
      d3   == (r2 * Limb) \div den
      r3   == (r2 * Limb) % den
      \* 1.d1 d2 d3 has 54 fraction bits: keep 52, round on the 53rd
  IN  RoundNearestEven(2^16 + d1 \div 4,
                       (d1 % 4) * 2^16 + d2 \div 4,
                       (d2 % 4) * 2^16 + d3 \div 4,
                       (down - up) - 52,
                       (d3 \div 2) % 2,
                       d3 % 2 = 1 \/ r3 # 0)

\* x * k for a float x > 0 and an integer k in 1..4095
FloatMulInt(x, k) ==
  LET p0 == x.lo * k
      p1 == x.mid * k + p0 \div Limb
      p2 == x.h * k + p1 \div Limb
      l0 == p0 % Limb
      l1 == p1 % Limb
      \* the product is p2 * 2^36 + l1 * 2^18 + l0; s bits are too many
      s  == BitLength(p2) - 17
  IN  IF s = 0
      THEN [h |-> p2, mid |-> l1, lo |-> l0, exp |-> x.exp]
      ELSE RoundNearestEven(p2 \div 2^s,
                            (p2 % 2^s) * 2^(18 - s) + l1 \div 2^s,
                            (l1 % 2^s) * 2^(18 - s) + l0 \div 2^s,
                            x.exp + s,
                            (l0 \div 2^(s - 1)) % 2,
                            l0 % 2^(s - 1) # 0)

\* int(x) for a float 0 < x < 2^31: the integer part
FloatToInt(x) ==
  LET drop == 0 - x.exp
  IN  IF drop >= 53 THEN 0
      ELSE IF drop >= 36 THEN x.h \div 2^(drop - 36)
      ELSE x.h * 2^(36 - drop) + x.mid \div 2^(drop - 18)

ExactPercent(m, t) == (100 * m) \div t

\* int((m / t) * 100)
PyPercent(m, t) ==
  IF m = 0 THEN 0 ELSE FloatToInt(FloatMulInt(FloatDiv(m, t), 100))

\* ------------------------------------------------------------------------
\* Strings
\* ------------------------------------------------------------------------

UpperCase == <<"P", "Y", "S", "Q", "M", "L">>
LowerCase == <<"p", "y", "s", "q", "m", "l">>

LowerChar(ch) ==
  IF \E i \in DOMAIN UpperCase : UpperCase[i] = ch
  THEN LowerCase[CHOOSE i \in DOMAIN UpperCase : UpperCase[i] = ch]
  ELSE ch

\* str.lower()
lower(text) == [i \in 1..Len(text) |-> LowerChar(text[i])]

\* sub in text
IsSubstring(sub, text) ==
  \E i \in 0..(Len(text) - Len(sub)) : SubSeq(text, i + 1, i + Len(sub)) = sub

\* ------------------------------------------------------------------------
\* The role taxonomy file (ATS_JOB_SKILLS_FILE).  A dict is a sequence of
\* <<skill, weight>> pairs in the file's order.
\* ------------------------------------------------------------------------

ats_data ==
  [ml    |-> [core |-> << <<SkillPy, 29>>, <<SkillSq, 71>> >>,
              optional |-> <<>>],
   data  |-> [core |-> << <<SkillPy, 50>>, <<SkillSq, 50>> >>,
              optional |-> << <<SkillMl, 25>> >>],
   web   |-> [core |-> << <<SkillSq, 1>> >>,
              optional |-> << <<SkillPy, 2>> >>],
   blank |-> [core |-> <<>>, optional |-> <<>>]]

KnownRoles == DOMAIN ats_data

JobRoles == KnownRoles \cup {"qa"}

FileStates == {"ok", "missing"}

\* sum(d.values())
RECURSIVE SumWeights(_)
SumWeights(d) == IF d = <<>> THEN 0 ELSE Head(d)[2] + SumWeights(Tail(d))

\* d[skill]
WeightOf(d, skill) == d[CHOOSE i \in DOMAIN d : d[i][1] = skill][2]

\* list(d.keys())
KeysOf(d) == [i \in DOMAIN d |-> d[i][1]]

\* get_available_job_roles(): [] when the file cannot be read
get_available_job_roles(file) == IF file = "ok" THEN KnownRoles ELSE {}

\* load_ats_data(job_role)
LoadsAnyRole(job_role, file) ==
  IF file # "ok"
  THEN [outcome |-> "FileNotFoundError", names_roles |-> FALSE, role_data |-> <<>>]
  ELSE IF job_role \notin KnownRoles
  THEN [outcome |-> "ok", names_roles |-> FALSE,
        role_data |-> [core |-> <<>>, optional |-> <<>>]]
  ELSE [outcome |-> "ok", names_roles |-> FALSE, role_data |-> ats_data[job_role]]

load_ats_data(job_role, file) ==
  IF file # "ok"
  THEN [outcome |-> "FileNotFoundError", names_roles |-> FALSE, role_data |-> <<>>]
  ELSE IF job_role \notin KnownRoles
  THEN [outcome |-> "ValueError", names_roles |-> TRUE, role_data |-> <<>>]
  ELSE [outcome |-> "ok", names_roles |-> FALSE, role_data |-> ats_data[job_role]]

\* ------------------------------------------------------------------------
\* semantic/hybrid_ats.py : calculate_keyword_ats_score
\* ------------------------------------------------------------------------

\* lines 75 and 83: skill in resume_skills_set or skill in resume_text_lower
SkillMatches(skill, resume_skills, resume_text) ==
  \/ \E i \in DOMAIN resume_skills : lower(resume_skills[i]) = skill
  \/ IsSubstring(skill, lower(resume_text))

\* a skill found both ways counted for each way
CountedTwice(d, resume_skills, resume_text) ==
  LET RECURSIVE Go(_)
      Go(i) ==
        IF i > Len(d) THEN 0
        ELSE Go(i + 1)
             + (IF \E k \in DOMAIN resume_skills :
                     lower(resume_skills[k]) = d[i][1]
                THEN d[i][2] ELSE 0)
             + (IF IsSubstring(d[i][1], lower(resume_text))
                THEN d[i][2] ELSE 0)
  IN  Go(1)

\* the weight the loop over one dict adds to matched_weight
MatchedWeight(d, resume_skills, resume_text) ==
  LET RECURSIVE Go(_)
      Go(i) ==
        IF i > Len(d) THEN 0
        ELSE (IF SkillMatches(d[i][1], resume_skills, resume_text)
              THEN d[i][2] ELSE 0) + Go(i + 1)
  IN  Go(1)

MatchedSkills(d, resume_skills, resume_text) ==
  KeysOf(SelectSeq(d, LAMBDA kv : SkillMatches(kv[1], resume_skills, resume_text)))

MissingSkills(d, resume_skills, resume_text) ==
  KeysOf(SelectSeq(d, LAMBDA kv : ~SkillMatches(kv[1], resume_skills, resume_text)))

calculate_keyword_ats_score(job_role, resume_skills, resume_text, file) ==
  LET ld == load_ats_data(job_role, file) IN
  IF ld.outcome # "ok"
  THEN [outcome |-> "RuntimeError", cause |-> ld.outcome,
        names_roles |-> ld.names_roles, score |-> None, details |-> <<>>]
  ELSE
  LET core_skills     == ld.role_data.core
      optional_skills == ld.role_data.optional
      total_weight    == SumWeights(core_skills) + SumWeights(optional_skills)
  IN
  IF total_weight = 0
  THEN [outcome |-> "ok", cause |-> "none", names_roles |-> FALSE,
        score |-> 0, details |-> <<>>]
  ELSE
  LET matched_weight ==
        MatchedWeight(core_skills, resume_skills, resume_text)
        + MatchedWeight(optional_skills, resume_skills, resume_text)
  IN  [outcome |-> "ok", cause |-> "none", names_roles |-> FALSE,
       score |-> PyPercent(matched_weight, total_weight),
       details |->
         [matched_core     |-> MatchedSkills(core_skills, resume_skills, resume_text),
          matched_optional |-> MatchedSkills(optional_skills, resume_skills, resume_text),
          missing_core     |-> MissingSkills(core_skills, resume_skills, resume_text),
          missing_optional |-> MissingSkills(optional_skills, resume_skills, resume_text),
          total_core_skills     |-> Len(core_skills),
          total_optional_skills |-> Len(optional_skills),
          matched_weight |-> matched_weight,
          total_weight   |-> total_weight]]

\* ------------------------------------------------------------------------
\* semantic/semantic_ats.py : semantic_ats_score
\* Similarities and thresholds are in thousandths (0.55 is 550).
\* ------------------------------------------------------------------------

SEMANTIC_SIMILARITY_THRESHOLD == 550

\* what the embedding model makes of the texts: the dot product of the unit
\* embeddings of a resume and of a skill name
ModelSimilarity ==
  [a |-> [py |-> 800, sq |-> 550, ml |-> 300],
   b |-> [py |-> 549, sq |-> 900, ml |-> 600]]

ResumeTag(text) == IF text = ResumeA THEN "a" ELSE IF text = ResumeB THEN "b" ELSE "other"

SkillTag(text) ==
  IF text = SkillPy THEN "py"
  ELSE IF text = SkillSq THEN "sq"
  ELSE IF text = SkillMl THEN "ml" ELSE "other"

\* cosine_similarity(a, b): np.dot of the two vectors
cosine_similarity(a, b) ==
  LET r == ResumeTag(TextOf(a))
      k == SkillTag(TextOf(b))
  IN  IF TextOf(a) = TextOf(b) THEN 1000
      ELSE IF r # "other" /\ k # "other" THEN ModelSimilarity[r][k]
      ELSE 100

\* line 50: sim >= threshold
BelowThreshold(sim, threshold) == sim <= threshold

MeetsThreshold(sim, threshold) == sim >= threshold

\* lines 46-54: the loop over zip(skill_texts, skill_vecs)
RECURSIVE MatchLoop(_, _, _, _, _, _)
MatchLoop(weighted_skills, skill_texts, skill_vecs, resume_vec, threshold, i) ==
  IF i > Len(skill_texts) \/ i > Len(skill_vecs)
  THEN [gained |-> 0, explanations |-> <<>>]
  ELSE LET rest == MatchLoop(weighted_skills, skill_texts, skill_vecs,
                             resume_vec, threshold, i + 1)
           sim  == cosine_similarity(resume_vec, skill_vecs[i])
       IN  IF MeetsThreshold(sim, threshold)
           THEN [gained |-> WeightOf(weighted_skills, skill_texts[i]) + rest.gained,
                 explanations |-> <<<<skill_texts[i], sim>>>> \o rest.explanations]
           ELSE rest

\* what semantic_ats_score leaves and returns after its embed_text calls
SemanticResult(e, outcome, score, explanations, inferred) ==
  [cache |-> e.cache, stats |-> e.stats, instance |-> e.instance,
   outcome |-> outcome, score |-> score, explanations |-> explanations,
   inferred |-> inferred]

InferenceCount(e) == IF e.inferred THEN 1 ELSE 0

\* lines 45-61: the match loop and the score, e2 being embed_text(skill_texts)
MatchSkills(e1, e2, weighted_skills, threshold) ==
  IF e2.outcome # "ok"
  THEN SemanticResult(e2, "RuntimeError", None, <<>>,
                      InferenceCount(e1) + InferenceCount(e2))
  ELSE
  LET m == MatchLoop(weighted_skills, KeysOf(weighted_skills), e2.result,
                     e1.result[1], threshold, 1)
  IN  SemanticResult(e2, "ok",
                     PyPercent(m.gained, SumWeights(weighted_skills)),
                     m.explanations,
                     InferenceCount(e1) + InferenceCount(e2))

\* lines 30-43: the total weight and the skills' embeddings, e1 being
\* embed_text(resume_text)
EmbedSkills(e1, weighted_skills, threshold, loadOk, inferOk) ==
  IF e1.outcome # "ok"
  THEN SemanticResult(e1, "RuntimeError", None, <<>>, InferenceCount(e1))
  ELSE IF SumWeights(weighted_skills) = 0
  THEN SemanticResult(e1, "ok", 0, <<>>, InferenceCount(e1))
  ELSE MatchSkills(e1,
                   embed_text(e1.cache, e1.stats, e1.instance,
                              KeysOf(weighted_skills), TRUE, TRUE,
                              loadOk, inferOk),
                   weighted_skills, threshold)

\* semantic_ats_score(resume_text, weighted_skills, threshold)
EmbedsResumeFirst(c, st, instance, resume_text, weighted_skills, threshold, loadOk, inferOk) ==
  IF resume_text = <<>>
  THEN [cache |-> c, stats |-> st, instance |-> instance,
        outcome |-> "ValueError", score |-> None, explanations |-> <<>>,
        inferred |-> 0]
  ELSE EmbedSkills(embed_text(c, st, instance, <<resume_text>>, TRUE, TRUE,
                              loadOk, inferOk),
                   weighted_skills, threshold, loadOk, inferOk)

semantic_ats_score(c, st, instance, resume_text, weighted_skills, threshold, loadOk, inferOk) ==
  LET quiet == [cache |-> c, stats |-> st, instance |-> instance,
                outcome |-> "ok", score |-> 0, explanations |-> <<>>,
                inferred |-> 0]
  IN
  IF resume_text = <<>>
  THEN [quiet EXCEPT !.outcome = "ValueError", !.score = None]
  ELSE IF weighted_skills = <<>>
  THEN quiet
  ELSE EmbedSkills(embed_text(c, st, instance, <<resume_text>>, TRUE, TRUE,
                              loadOk, inferOk),
                   weighted_skills, threshold, loadOk, inferOk)

\* ------------------------------------------------------------------------
\* semantic/hybrid_ats.py : hybrid_ats_score
\* keyword_weight and semantic_weight are multiples of 1/128, which floats
\* hold exactly: 128 is 1.0.
\* ------------------------------------------------------------------------

WeightUnit == 128

Abs(x) == IF x < 0 THEN 0 - x ELSE x

\* int(x / WeightUnit): Python's int() drops the fraction, towards zero
TruncDiv(x, d) == IF x >= 0 THEN x \div d ELSE 0 - ((0 - x) \div d)

\* line 130: abs((keyword_weight + semantic_weight) - 1.0) > 0.01
AnyWeights(keyword_weight, semantic_weight) == FALSE

WeightsRejected(keyword_weight, semantic_weight) ==
  100 * Abs((keyword_weight + semantic_weight) - WeightUnit) > WeightUnit

\* lines 151-154: int(keyword_score * keyword_weight + semantic_score * semantic_weight)
SwappedWeights(keyword_score, semantic_score, keyword_weight, semantic_weight) ==
  TruncDiv(keyword_score * semantic_weight + semantic_score * keyword_weight,
           WeightUnit)

CombineScores(keyword_score, semantic_score, keyword_weight, semantic_weight) ==
  TruncDiv(keyword_score * keyword_weight + semantic_score * semantic_weight,
           WeightUnit)

\* lines 151-179: the final score and the breakdown, kw and sem being the
\* results of calculate_keyword_ats_score and semantic_ats_score
HybridResult(kw, sem, job_role, keyword_weight, semantic_weight) ==
  IF sem.outcome # "ok"
  THEN [cache |-> sem.cache, stats |-> sem.stats, instance |-> sem.instance,
        outcome |-> "RuntimeError", error |-> "semantic",
        final_score |-> None, breakdown |-> <<>>, inferred |-> sem.inferred]
  ELSE
  LET final_score == CombineScores(kw.score, sem.score,
                                   keyword_weight, semantic_weight)
  IN  [cache |-> sem.cache, stats |-> sem.stats, instance |-> sem.instance,
       outcome |-> "ok", error |-> "none", final_score |-> final_score,
       breakdown |->
         [final_score |-> final_score,
          keyword_score |-> kw.score,
          semantic_score |-> sem.score,
          weights |-> [keyword |-> keyword_weight, semantic |-> semantic_weight],
          keyword_details |-> kw.details,
          semantic_matches |-> sem.explanations,
          job_role |-> job_role],
       inferred |-> sem.inferred]

\* hybrid_ats_score(resume_text, resume_skills, job_role, keyword_weight,
\* semantic_weight)
ValidatesAfterEmbedding(c, st, instance, resume_text, resume_skills, job_role, keyword_weight, semantic_weight, file, loadOk, inferOk) ==
  LET e == embed_text(c, st, instance, <<SkillPy>>, TRUE, TRUE, TRUE, TRUE)
  IN  [cache |-> e.cache, stats |-> e.stats, instance |-> e.instance,
       outcome |-> "ValueError", error |-> "text", final_score |-> None,
       breakdown |-> <<>>, inferred |-> InferenceCount(e)]

hybrid_ats_score(c, st, instance, resume_text, resume_skills, job_role, keyword_weight, semantic_weight, file, loadOk, inferOk) ==
  LET quiet == [cache |-> c, stats |-> st, instance |-> instance,
                outcome |-> "ok", error |-> "none", final_score |-> None,
                breakdown |-> <<>>, inferred |-> 0]
  IN
  IF resume_text = <<>>
  THEN [quiet EXCEPT !.outcome = "ValueError", !.error = "text"]
  ELSE IF job_role \notin get_available_job_roles(file)
  THEN [quiet EXCEPT !.outcome = "ValueError", !.error = "role"]
  ELSE IF WeightsRejected(keyword_weight, semantic_weight)
  THEN [quiet EXCEPT !.outcome = "ValueError", !.error = "weights"]
  ELSE
  LET kw == calculate_keyword_ats_score(job_role, resume_skills, resume_text, file)
  IN
  IF kw.outcome # "ok"
  THEN [quiet EXCEPT !.outcome = "RuntimeError", !.error = "keyword"]
  ELSE HybridResult(kw,
                    semantic_ats_score(c, st, instance, resume_text,
                                       load_ats_data(job_role, file).role_data.core,
                                       SEMANTIC_SIMILARITY_THRESHOLD,
                                       loadOk, inferOk),
                    job_role, keyword_weight, semantic_weight)

\* ------------------------------------------------------------------------
\* Scoring calls.  A caller makes one call at a time and takes its result
\* before the next one; embeddings it asked for earlier may be cached.
\* ------------------------------------------------------------------------

\* config.KEYWORD_WEIGHT = 0.4 and SEMANTIC_WEIGHT = 0.6, to the nearest 1/128
KEYWORD_WEIGHT == 51

SEMANTIC_WEIGHT == 77

ResumeInputs == {<<>>, ResumeA, ResumeB}

SkillLists == {<<>>, <<<<"P", "Y">>>>, <<SkillSq, SkillMl>>}

\* 1.0/0.0, the defaults, 0.5/0.508 (inside the tolerance), 0.5/0.6 and
\* 0.484/0.5 (outside it), 1.5/-0.5
WeightPairs ==
  {<<WeightUnit, 0>>, <<KEYWORD_WEIGHT, SEMANTIC_WEIGHT>>, <<64, 65>>,
   <<64, 77>>, <<62, 64>>, <<192, 0 - 64>>}

WeightedSkillSets ==
  {ats_data[r].core : r \in KnownRoles} \cup {<< <<SkillMl, 0>> >>}

Thresholds == {300, SEMANTIC_SIMILARITY_THRESHOLD, 700, 801}

Snapshot ==
  [cache |-> embedding_cache, stats |-> cache_stats, instance |-> model_instance]

ScoreFrame == UNCHANGED <<cache, stats, directVars, threadVars, eret, eprev>>

\* lookups the process has made before a scoring call starts
MaxWarmLookups == 1

Ready ==
  /\ sret.op = "none"
  /\ cache_stats.hits + cache_stats.misses <= MaxWarmLookups

\* loadOk is the outcome of a load, and a loaded model is not loaded again
LoadPossible(loadOk) == model_instance # None => loadOk

\* an earlier embed(text) of the same process
Precompute(text) ==
  /\ Ready
  /\ LET r == embed_text(embedding_cache, cache_stats, model_instance,
                         <<text>>, TRUE, TRUE, TRUE, TRUE)
     IN  /\ embedding_cache' = r.cache
         /\ cache_stats' = r.stats
         /\ model_instance' = r.instance
  /\ UNCHANGED sret
  /\ ScoreFrame

\* calculate_keyword_ats_score(job_role, resume_skills, resume_text)
KeywordAfterEmbedding(job_role, resume_skills, resume_text, file) ==
  /\ Ready
  /\ sret' = [op |-> "keyword",
              args |-> [job_role |-> job_role, resume_skills |-> resume_skills,
                        resume_text |-> resume_text, file |-> file],
              res |-> calculate_keyword_ats_score(job_role, resume_skills,
                                                  resume_text, file),
              before |-> Snapshot]
  /\ embedding_cache' = embed_text(embedding_cache, cache_stats, model_instance,
                                   <<resume_text>>, TRUE, TRUE, TRUE, TRUE).cache
  /\ cache_stats' = embed_text(embedding_cache, cache_stats, model_instance,
                               <<resume_text>>, TRUE, TRUE, TRUE, TRUE).stats
  /\ model_instance' = Loaded
  /\ ScoreFrame

KeywordCall(job_role, resume_skills, resume_text, file) ==
  /\ Ready
  /\ sret' = [op |-> "keyword",
              args |-> [job_role |-> job_role, resume_skills |-> resume_skills,
                        resume_text |-> resume_text, file |-> file],
              res |-> calculate_keyword_ats_score(job_role, resume_skills,
                                                  resume_text, file),
              before |-> Snapshot]
  /\ UNCHANGED <<embedding_cache, cache_stats, model_instance>>
  /\ ScoreFrame

SemanticCall(resume_text, weighted_skills, threshold, loadOk, inferOk) ==
  /\ Ready
  /\ LoadPossible(loadOk)
  /\ LET r == semantic_ats_score(embedding_cache, cache_stats, model_instance,
                                 resume_text, weighted_skills, threshold,
                                 loadOk, inferOk)
     IN  /\ embedding_cache' = r.cache
         /\ cache_stats' = r.stats
         /\ model_instance' = r.instance
         /\ sret' = [op |-> "semantic",
                     args |-> [resume_text |-> resume_text,
                               weighted_skills |-> weighted_skills,
                               threshold |-> threshold,
                               loadOk |-> loadOk, inferOk |-> inferOk],
                     res |-> [outcome |-> r.outcome, score |-> r.score,
                              explanations |-> r.explanations,
                              inferred |-> r.inferred],
                     before |-> Snapshot]
  /\ ScoreFrame

HybridCall(resume_text, resume_skills, job_role, keyword_weight, semantic_weight, file, loadOk, inferOk) ==
  /\ Ready
  /\ LoadPossible(loadOk)
  /\ LET r == hybrid_ats_score(embedding_cache, cache_stats, model_instance,
                               resume_text, resume_skills, job_role,
                               keyword_weight, semantic_weight, file,
                               loadOk, inferOk)
     IN  /\ embedding_cache' = r.cache
         /\ cache_stats' = r.stats
         /\ model_instance' = r.instance
         /\ sret' = [op |-> "hybrid",
                     args |-> [resume_text |-> resume_text,
                               resume_skills |-> resume_skills,
                               job_role |-> job_role,
                               keyword_weight |-> keyword_weight,
                               semantic_weight |-> semantic_weight,
                               file |-> file,
                               loadOk |-> loadOk, inferOk |-> inferOk],
                     res |-> [outcome |-> r.outcome, error |-> r.error,
                              final_score |-> r.final_score,
                              breakdown |-> r.breakdown,
                              inferred |-> r.inferred],
                     before |-> Snapshot]
  /\ ScoreFrame

\* the caller has taken the result
ScoreReturn ==
  /\ sret.op # "none"
  /\ sret' = NoScoreCall
  /\ UNCHANGED <<embedding_cache, cache_stats, model_instance>>
  /\ ScoreFrame

InitScore ==
  /\ Fresh
  /\ target = "module"

NextScore ==
  \/ \E text \in AllTexts : Precompute(text)
  \/ \E job_role \in JobRoles, resume_skills \in SkillLists,
        resume_text \in ResumeInputs, file \in FileStates :
       KeywordCall(job_role, resume_skills, resume_text, file)
  \/ \E resume_text \in ResumeInputs, weighted_skills \in WeightedSkillSets,
        threshold \in Thresholds, loadOk, inferOk \in BOOLEAN :
       SemanticCall(resume_text, weighted_skills, threshold, loadOk, inferOk)
  \/ \E resume_text \in ResumeInputs, resume_skills \in SkillLists,
        job_role \in JobRoles, w \in WeightPairs, file \in FileStates,
        loadOk, inferOk \in BOOLEAN :
       HybridCall(resume_text, resume_skills, job_role, w[1], w[2], file,
                  loadOk, inferOk)
  \/ ScoreReturn

SpecScore == InitScore /\ [][NextScore]_vars

\* ------------------------------------------------------------------------
\* Scoring properties
\* ------------------------------------------------------------------------

RoleTotal(job_role) ==
  SumWeights(ats_data[job_role].core) + SumWeights(ats_data[job_role].optional)

KeywordReturned ==
  /\ sret.op = "keyword"
  /\ sret.res.outcome = "ok"
  /\ RoleTotal(sret.args.job_role) > 0

\* C6: for a taxonomy with total weight > 0 the keyword score is
\* floor(100 * matched_weight / total_weight), matched_weight being the sum,
\* once per taxonomy skill, of the weights of the skills found in the
\* lowercased resume_skills or as a substring of the lowercased resume_text.
C6_KeywordScoreIsFloor ==
  KeywordReturned =>
    sret.res.score =
      (100 * (MatchedWeight(ats_data[sret.args.job_role].core,
                            sret.args.resume_skills, sret.args.resume_text)
              + MatchedWeight(ats_data[sret.args.job_role].optional,
                              sret.args.resume_skills, sret.args.resume_text)))
      \div RoleTotal(sret.args.job_role)

\* C7: for a taxonomy with positive weights and total weight > 0, the
\* keyword score and the semantic score are integers in 0..100.
C7_ScoresWithinRange ==
  /\ KeywordReturned => sret.res.score \in 0..100
  /\ (sret.op = "semantic" /\ sret.res.outcome = "ok") =>
        sret.res.score \in 0..100
  /\ (sret.op = "hybrid" /\ sret.res.outcome = "ok") =>
        /\ sret.res.breakdown.keyword_score \in 0..100
        /\ sret.res.breakdown.semantic_score \in 0..100

HybridReturned == sret.op = "hybrid" /\ sret.res.outcome = "ok"

\* both scorers ran and every weighted skill was found, by name or meaning
C7_Witness ==
  /\ HybridReturned
  /\ RoleTotal(sret.args.job_role) > 0
  /\ sret.res.breakdown.keyword_score = 100
  /\ sret.res.breakdown.semantic_score = 100
  /\ sret.res.breakdown.keyword_details.matched_weight
       = RoleTotal(sret.args.job_role)

\* C8: every hybrid_ats_score call that returns (its weights passed the
\* sum-to-1.0 check) returns a final_score that is an integer in 0..100.
C8_FinalScoreWithinRange ==
  HybridReturned => sret.res.final_score \in 0..100

\* C9: with keyword_weight = 1.0 and semantic_weight = 0.0 the final score
\* is the score calculate_keyword_ats_score returns for the same role,
\* skills and text, whatever the semantic score.
C9_KeywordOnlyWeights ==
  (/\ HybridReturned
   /\ sret.args.keyword_weight = WeightUnit
   /\ sret.args.semantic_weight = 0)
  => sret.res.final_score =
       calculate_keyword_ats_score(sret.args.job_role, sret.args.resume_skills,
                                   sret.args.resume_text, sret.args.file).score

\* the two sub-scores differ and the final score is the keyword one
C9_Witness ==
  /\ HybridReturned
  /\ sret.args.keyword_weight = WeightUnit
  /\ sret.args.semantic_weight = 0
  /\ sret.res.breakdown.semantic_score > sret.res.breakdown.keyword_score
  /\ sret.res.breakdown.keyword_score > 0
  /\ sret.res.final_score = sret.res.breakdown.keyword_score

\* keyword_weight + semantic_weight is further than 0.01 from 1.0
WeightsOffByMoreThanTolerance ==
  \/ 100 * (sret.args.keyword_weight + sret.args.semantic_weight)
       > 101 * WeightUnit
  \/ 100 * (sret.args.keyword_weight + sret.args.semantic_weight)
       < 99 * WeightUnit

\* C10: hybrid_ats_score called with weights whose sum differs from 1.0 by
\* more than 0.01 raises ValueError (not the RuntimeError that wraps scoring
\* failures) and returns no score.
C10_BadWeightsRaiseValueError ==
  (sret.op = "hybrid" /\ WeightsOffByMoreThanTolerance) =>
    /\ sret.res.outcome = "ValueError"
    /\ sret.res.final_score = None
    /\ sret.res.breakdown = <<>>

\* text, role and taxonomy file are fine, the weights are 0.5 and 0.6
C10_Witness ==
  /\ sret.op = "hybrid"
  /\ sret.args.keyword_weight = 64
  /\ sret.args.semantic_weight = 77
  /\ sret.args.resume_text = ResumeA
  /\ sret.args.job_role = "ml"
  /\ sret.args.file = "ok"
  /\ sret.res.outcome = "ValueError"
  /\ sret.res.error = "weights"

\* ------------------------------------------------------------------------
\* semantic/skill_gap.py : semantic_skill_gap and semantic_match_skills,
\* semantic/semantic_ats.py : calculate_skill_match.
\* A similarity in thousandths is also round(sim * 100, 1) in tenths of a
\* percent.  A result carries, besides what the function returns, the store
\* it leaves, whether an embed_text call raised inside it (failed) and what
\* the loop variable was bound to in each iteration (bound).
\* ------------------------------------------------------------------------

\* lines 30-36: for skill, vec in zip(required_skills, skill_vecs)
NoneMissing(required_skills, skill_vecs, resume_vec, threshold, i) ==
  [matched |-> <<>>, missing |-> <<>>, bound |-> <<>>]

RECURSIVE GapLoop(_, _, _, _, _)
GapLoop(required_skills, skill_vecs, resume_vec, threshold, i) ==
  IF i > Len(required_skills) \/ i > Len(skill_vecs)
  THEN [matched |-> <<>>, missing |-> <<>>, bound |-> <<>>]
  ELSE LET sim == cosine_similarity(resume_vec, skill_vecs[i]) IN
       IF MeetsThreshold(sim, threshold)
       THEN [GapLoop(required_skills, skill_vecs, resume_vec, threshold, i + 1)
               EXCEPT !.matched = <<<<required_skills[i], sim>>>> \o @,
                      !.bound = <<<<required_skills[i], TextOf(skill_vecs[i])>>>> \o @]
       ELSE [GapLoop(required_skills, skill_vecs, resume_vec, threshold, i + 1)
               EXCEPT !.missing = <<required_skills[i]>> \o @,
                      !.bound = <<<<required_skills[i], TextOf(skill_vecs[i])>>>> \o @]

\* what a matching function leaves and returns after its embed_text calls
GapResult(e, outcome, matched, missing, bound, failed) ==
  [cache |-> e.cache, stats |-> e.stats, instance |-> e.instance,
   outcome |-> outcome, matched |-> matched, missing |-> missing,
   bound |-> bound, failed |-> failed]

\* skill_gap.py lines 26-47, e2 being embed_text(required_skills)
GapAfterSkills(e1, e2, required_skills, threshold) ==
  IF e2.outcome # "ok"
  THEN GapResult(e2, "ok", <<>>, required_skills, <<>>, TRUE)
  ELSE GapResult(e2, "ok",
                 GapLoop(required_skills, e2.result, e1.result[1], threshold, 1).matched,
                 GapLoop(required_skills, e2.result, e1.result[1], threshold, 1).missing,
                 GapLoop(required_skills, e2.result, e1.result[1], threshold, 1).bound,
                 FALSE)

\* skill_gap.py lines 23-24 and 45-47, e1 being embed_text(resume_text)
GapAfterResume(e1, required_skills, threshold, loadOk, inferOk) ==
  IF e1.outcome # "ok"
  THEN GapResult(e1, "ok", <<>>, required_skills, <<>>, TRUE)
  ELSE GapAfterSkills(e1,
                      embed_text(e1.cache, e1.stats, e1.instance,
                                 required_skills, TRUE, TRUE, loadOk, inferOk),
                      required_skills, threshold)

\* skill_gap.semantic_skill_gap(resume_text, required_skills, threshold)
semantic_skill_gap(c, st, instance, resume_text, required_skills, threshold, loadOk, inferOk) ==
  IF resume_text = <<>> \/ required_skills = <<>>
  THEN [cache |-> c, stats |-> st, instance |-> instance, outcome |-> "ok",
        matched |-> <<>>, missing |-> required_skills, bound |-> <<>>,
        failed |-> FALSE]
  ELSE GapAfterResume(embed_text(c, st, instance, <<resume_text>>, TRUE, TRUE,
                                 loadOk, inferOk),
                      required_skills, threshold, loadOk, inferOk)

\* skill_gap.py line 75: sorted(results, key=lambda x: x[1], reverse=True);
\* the sort is stable, equal similarities keep their order
SortBySimilarity(results) ==
  [j \in 1..Len(results) |->
     results[CHOOSE k \in DOMAIN results :
               Cardinality({m \in DOMAIN results :
                              \/ results[m][2] > results[k][2]
                              \/ results[m][2] = results[k][2] /\ m < k}) = j - 1]]

\* what semantic_match_skills returns, g being the outcome of its two
\* embed_text calls and its loop (the calls and the loop of
\* semantic_skill_gap, keeping the matched pairs only; [] on an exception)
MatchResult(g) ==
  [cache |-> g.cache, stats |-> g.stats, instance |-> g.instance,
   outcome |-> g.outcome, results |-> SortBySimilarity(g.matched),
   bound |-> g.bound, failed |-> g.failed]

\* skill_gap.semantic_match_skills(resume_text, required_skills, threshold)
semantic_match_skills(c, st, instance, resume_text, required_skills, threshold, loadOk, inferOk) ==
  IF resume_text = <<>> \/ required_skills = <<>>
  THEN [cache |-> c, stats |-> st, instance |-> instance, outcome |-> "ok",
        results |-> <<>>, bound |-> <<>>, failed |-> FALSE]
  ELSE MatchResult(
         GapAfterResume(embed_text(c, st, instance, <<resume_text>>, TRUE,
                                   TRUE, loadOk, inferOk),
                        required_skills, threshold, loadOk, inferOk))

\* round((matched / total) * 100, 2), in hundredths of a percent
MatchPercentage(matched_count, total) ==
  (20000 * matched_count + total) \div (2 * total)

\* the dict calculate_skill_match returns, g being the outcome of its two
\* embed_text calls and its loop (lines 86-103) or of the except branch
\* (lines 115-123), which adds the key 'error'
SkillMatchResult(g, required_skills) ==
  [cache |-> g.cache, stats |-> g.stats, instance |-> g.instance,
   outcome |-> g.outcome,
   match_percentage |-> IF g.failed THEN 0
                        ELSE MatchPercentage(Len(g.matched), Len(required_skills)),
   matched_skills |-> g.matched,
   missing_skills |-> g.missing,
   total_skills |-> Len(required_skills),
   has_error |-> g.failed,
   bound |-> g.bound, failed |-> g.failed]

\* semantic_ats.calculate_skill_match(resume_text, required_skills, threshold)
calculate_skill_match(c, st, instance, resume_text, required_skills, threshold, loadOk, inferOk) ==
  IF resume_text = <<>> \/ required_skills = <<>>
  THEN [cache |-> c, stats |-> st, instance |-> instance, outcome |-> "ok",
        match_percentage |-> 0, matched_skills |-> <<>>,
        missing_skills |-> required_skills,
        total_skills |-> Len(required_skills), has_error |-> FALSE,
        bound |-> <<>>, failed |-> FALSE]
  ELSE SkillMatchResult(
         GapAfterResume(embed_text(c, st, instance, <<resume_text>>, TRUE,
                                   TRUE, loadOk, inferOk),
                        required_skills, threshold, loadOk, inferOk),
         required_skills)

\* ------------------------------------------------------------------------
\* semantic/semantic_skill_gap.py : semantic_skill_gap and
\* semantic/skill_matcher.py : semantic_match_skills, the earlier versions
\* of the two functions.  They test no input and catch no exception.
\* ------------------------------------------------------------------------

\* semantic_skill_gap.py lines 16-28, e1 being embed([resume_text])
StandaloneAfterResume(e1, e2, required_skills, threshold) ==
  IF e1.outcome # "ok"
  THEN GapResult(e1, "RuntimeError", <<>>, <<>>, <<>>, TRUE)
  ELSE IF e2.outcome # "ok"
  THEN GapResult(e2, "RuntimeError", <<>>, <<>>, <<>>, TRUE)
  ELSE GapResult(e2, "ok",
                 GapLoop(required_skills, e2.result, e1.result[1], threshold, 1).matched,
                 GapLoop(required_skills, e2.result, e1.result[1], threshold, 1).missing,
                 GapLoop(required_skills, e2.result, e1.result[1], threshold, 1).bound,
                 FALSE)

\* embed(required_skills) after embed([resume_text]) returned e1
EmbedAfter(e1, texts, loadOk, inferOk) ==
  IF e1.outcome # "ok" THEN e1
  ELSE embed_text(e1.cache, e1.stats, e1.instance, texts, TRUE, TRUE,
                  loadOk, inferOk)

\* semantic_skill_gap.semantic_skill_gap(resume_text, required_skills, threshold)
standalone_semantic_skill_gap(c, st, instance, resume_text, required_skills, threshold, loadOk, inferOk) ==
  StandaloneAfterResume(
    embed_text(c, st, instance, <<resume_text>>, TRUE, TRUE, loadOk, inferOk),
    EmbedAfter(embed_text(c, st, instance, <<resume_text>>, TRUE, TRUE,
                          loadOk, inferOk),
               required_skills, loadOk, inferOk),
    required_skills, threshold)

\* the number of components of a vector of EMBEDDING_MODEL
EmbeddingDim == 384

\* what iterating over resume_vec yields: a component of the vector
Component == <<"resume_vec component">>

\* skill_matcher.py lines 8-11: for skill, vec in zip(resume_vec, skill_vecs);
\* results.append(skill, round(score*100, 1)) passes two arguments to
\* list.append, which raises TypeError
RECURSIVE MatcherLoop(_, _, _, _)
MatcherLoop(resume_vec, skill_vecs, threshold, i) ==
  IF i > EmbeddingDim \/ i > Len(skill_vecs)
  THEN [outcome |-> "ok", bound |-> <<>>]
  ELSE IF MeetsThreshold(cosine_similarity(resume_vec, skill_vecs[i]), threshold)
  THEN [outcome |-> "TypeError",
        bound |-> <<<<Component, TextOf(skill_vecs[i])>>>>]
  ELSE [MatcherLoop(resume_vec, skill_vecs, threshold, i + 1)
          EXCEPT !.bound = <<<<Component, TextOf(skill_vecs[i])>>>> \o @]

\* skill_matcher.py lines 4-13, e1 being embed([resume_text]) and e2
\* embed(required_skills)
MatcherAfterEmbeds(e1, e2, threshold) ==
  IF e1.outcome # "ok"
  THEN GapResult(e1, "RuntimeError", <<>>, <<>>, <<>>, TRUE)
  ELSE IF e2.outcome # "ok"
  THEN GapResult(e2, "RuntimeError", <<>>, <<>>, <<>>, TRUE)
  ELSE GapResult(e2,
                 MatcherLoop(e1.result[1], e2.result, threshold, 1).outcome,
                 <<>>, <<>>,
                 MatcherLoop(e1.result[1], e2.result, threshold, 1).bound,
                 FALSE)

\* skill_matcher.semantic_match_skills(resume_text, required_skills, threshold)
skill_matcher_semantic_match_skills(c, st, instance, resume_text, required_skills, threshold, loadOk, inferOk) ==
  MatcherAfterEmbeds(
    embed_text(c, st, instance, <<resume_text>>, TRUE, TRUE, loadOk, inferOk),
    EmbedAfter(embed_text(c, st, instance, <<resume_text>>, TRUE, TRUE,
                          loadOk, inferOk),
               required_skills, loadOk, inferOk),
    threshold)

\* ------------------------------------------------------------------------
\* Calls of the matching functions.  As for the scorers, a caller makes one
\* call at a time and takes its result before the next one.
\* ------------------------------------------------------------------------

RequiredLists ==
  {<<>>, <<SkillPy>>, <<SkillPy, SkillSq>>, <<SkillMl, SkillPy, SkillSq>>,
   <<SkillSq, SkillSq>>}

\* thresholds in [0, 1], in thousandths
GapThresholds == {0, 300, SEMANTIC_SIMILARITY_THRESHOLD, 801, 1000}

GapArgs(resume_text, required_skills, threshold, loadOk, inferOk) ==
  [resume_text |-> resume_text, required_skills |-> required_skills,
   threshold |-> threshold, loadOk |-> loadOk, inferOk |-> inferOk]

\* the call op(args) ends with r: the store it leaves and what it returned
GapReturns(op, args, r) ==
  /\ embedding_cache' = r.cache
  /\ cache_stats' = r.stats
  /\ model_instance' = r.instance
  /\ sret' = [op |-> op, args |-> args, res |-> r, before |-> Snapshot]
  /\ ScoreFrame

SkillGapCall(resume_text, required_skills, threshold, loadOk, inferOk) ==
  /\ Ready
  /\ LoadPossible(loadOk)
  /\ GapReturns("skill_gap",
                GapArgs(resume_text, required_skills, threshold, loadOk, inferOk),
                semantic_skill_gap(embedding_cache, cache_stats, model_instance,
                                   resume_text, required_skills, threshold,
                                   loadOk, inferOk))

MatchSkillsCall(resume_text, required_skills, threshold, loadOk, inferOk) ==
  /\ Ready
  /\ LoadPossible(loadOk)
  /\ GapReturns("match_skills",
                GapArgs(resume_text, required_skills, threshold, loadOk, inferOk),
                semantic_match_skills(embedding_cache, cache_stats, model_instance,
                                      resume_text, required_skills, threshold,
                                      loadOk, inferOk))

SkillMatchCall(resume_text, required_skills, threshold, loadOk, inferOk) ==
  /\ Ready
  /\ LoadPossible(loadOk)
  /\ GapReturns("skill_match",
                GapArgs(resume_text, required_skills, threshold, loadOk, inferOk),
                calculate_skill_match(embedding_cache, cache_stats, model_instance,
                                      resume_text, required_skills, threshold,
                                      loadOk, inferOk))

StandaloneGapCall(resume_text, required_skills, threshold, loadOk, inferOk) ==
  /\ Ready
  /\ LoadPossible(loadOk)
  /\ GapReturns("standalone_skill_gap",
                GapArgs(resume_text, required_skills, threshold, loadOk, inferOk),
                standalone_semantic_skill_gap(embedding_cache, cache_stats,
                                              model_instance, resume_text,
                                              required_skills, threshold,
                                              loadOk, inferOk))

SkillMatcherCall(resume_text, required_skills, threshold, loadOk, inferOk) ==
  /\ Ready
  /\ LoadPossible(loadOk)
  /\ GapReturns("skill_matcher",
                GapArgs(resume_text, required_skills, threshold, loadOk, inferOk),
                skill_matcher_semantic_match_skills(embedding_cache, cache_stats,
                                                    model_instance, resume_text,
                                                    required_skills, threshold,
                                                    loadOk, inferOk))

InitGap ==
  /\ Fresh
  /\ target = "module"

NextGap ==
  \/ \E text \in AllTexts : Precompute(text)
  \/ \E resume_text \in ResumeInputs, required_skills \in RequiredLists,
        threshold \in GapThresholds, loadOk, inferOk \in BOOLEAN :
       \/ SkillGapCall(resume_text, required_skills, threshold, loadOk, inferOk)
       \/ MatchSkillsCall(resume_text, required_skills, threshold, loadOk, inferOk)
       \/ SkillMatchCall(resume_text, required_skills, threshold, loadOk, inferOk)
       \/ StandaloneGapCall(resume_text, required_skills, threshold, loadOk, inferOk)
       \/ SkillMatcherCall(resume_text, required_skills, threshold, loadOk, inferOk)
  \/ \E resume_text \in ResumeInputs, weighted_skills \in WeightedSkillSets,
        threshold \in Thresholds, loadOk, inferOk \in BOOLEAN :
       SemanticCall(resume_text, weighted_skills, threshold, loadOk, inferOk)
  \/ ScoreReturn

SpecGap == InitGap /\ [][NextGap]_vars

\* ------------------------------------------------------------------------
\* Matching properties
\* ------------------------------------------------------------------------

Range(seq) == {seq[i] : i \in DOMAIN seq}

NamesOf(pairs) == [i \in DOMAIN pairs |-> pairs[i][1]]

\* the members of required_skills that are in names, in their order
Restricted(required_skills, names) ==
  SelectSeq(required_skills, LAMBDA s : s \in Range(names))

\* matched and missing split required_skills, each in its order
Partitions(required_skills, matched, missing) ==
  /\ Range(NamesOf(matched)) \cap Range(missing) = {}
  /\ Range(NamesOf(matched)) \cup Range(missing) = Range(required_skills)
  /\ NamesOf(matched) = Restricted(required_skills, NamesOf(matched))
  /\ missing = Restricted(required_skills, missing)

GapMatchedAt(t) ==
  Range(NamesOf(semantic_skill_gap(sret.before.cache, sret.before.stats,
                                   sret.before.instance,
                                   sret.args.resume_text,
                                   sret.args.required_skills, t,
                                   sret.args.loadOk, sret.args.inferOk).matched))

\* what semantic_ats_score returns for the arguments of the last call at the
\* threshold t, from the store the call started with
SemanticAt(t) ==
  semantic_ats_score(sret.before.cache, sret.before.stats,
                     sret.before.instance, sret.args.resume_text,
                     sret.args.weighted_skills, t,
                     sret.args.loadOk, sret.args.inferOk)

\* C12: for the same resume text and skills, a skill matched at a threshold
\* is matched at every lower threshold, in semantic_skill_gap and in
\* semantic_ats_score, and the semantic score at the higher threshold is not
\* above the score at the lower one.
C12_RaisingThresholdOnlyLosesMatches ==
  /\ sret.op = "skill_gap" =>
       \A t2 \in GapThresholds :
         t2 >= sret.args.threshold =>
           GapMatchedAt(t2) \subseteq Range(NamesOf(sret.res.matched))
  /\ (sret.op = "semantic" /\ sret.res.outcome = "ok") =>
       \A t2 \in Thresholds :
         t2 >= sret.args.threshold =>
           /\ Range(NamesOf(SemanticAt(t2).explanations))
                \subseteq Range(NamesOf(sret.res.explanations))
           /\ SemanticAt(t2).score <= sret.res.score

\* a call at 0.3 that matches three skills of which 0.801 keeps none
C12_Witness ==
  /\ sret.op = "skill_gap"
  /\ sret.args.threshold = 300
  /\ Len(sret.res.matched) = 3
  /\ GapMatchedAt(801) = {}
  /\ GapMatchedAt(SEMANTIC_SIMILARITY_THRESHOLD) = {SkillPy, SkillSq}

MatchingOps ==
  {"skill_gap", "match_skills", "skill_match", "standalone_skill_gap",
   "skill_matcher"}

\* the (skill, similarity) elements the last call reported
Reported ==
  IF sret.op = "match_skills" THEN sret.res.results
  ELSE IF sret.op = "skill_match" THEN sret.res.matched_skills
  ELSE IF sret.op = "semantic" THEN sret.res.explanations
  ELSE sret.res.matched

\* the skill names the last call was given
GivenSkills ==
  IF sret.op = "semantic" THEN Range(KeysOf(sret.args.weighted_skills))
  ELSE Range(sret.args.required_skills)

\* C13: in every semantic matching function the loop binds each required
\* skill name to the embedding of that skill, and every reported element is
\* a required skill name with the similarity of the resume to that skill;
\* the loop variable is never a component of the resume embedding.
C13_SkillsPairedWithOwnEmbedding ==
  /\ sret.op \in MatchingOps =>
       \A i \in DOMAIN sret.res.bound :
         /\ sret.res.bound[i][1] \in GivenSkills
         /\ sret.res.bound[i][2] = sret.res.bound[i][1]
  /\ (sret.op \in MatchingOps \cup {"semantic"} /\ sret.res.outcome = "ok") =>
       \A i \in DOMAIN Reported :
         /\ Reported[i][1] \in GivenSkills
         /\ Reported[i][2] =
              cosine_similarity(Encode(sret.args.resume_text, TRUE),
                                Encode(Reported[i][1], TRUE))

\* did the embedding model fail to load or to infer during the last call
BackendFailed ==
  IF sret.op \in MatchingOps THEN sret.res.failed
  ELSE /\ sret.op = "semantic"
       /\ sret.args.resume_text # <<>>
       /\ sret.args.weighted_skills # <<>>
       /\ \/ ~sret.args.loadOk /\ sret.before.instance = None
          \/ ~sret.args.inferOk /\ sret.res.inferred > 0

\* C14: a call during which the embedding model could not be loaded or its
\* inference failed ends in an error; it does not return a normal result.
C14_BackendFailureIsAnError ==
  BackendFailed => sret.res.outcome # "ok"

\* ------------------------------------------------------------------------
\* Scoring properties: degenerate inputs, unknown roles, keyword-only mode
\* ------------------------------------------------------------------------

\* the embedding model loads and infers during the last call
BackendWorks == sret.args.loadOk /\ sret.args.inferOk

\* C15: degenerate inputs never raise and give a zero score or an empty
\* result: a taxonomy of total weight 0, an empty resume text, an empty
\* skill list or empty weighted_skills, in calculate_keyword_ats_score,
\* semantic_ats_score, hybrid_ats_score and semantic_skill_gap (the role,
\* the taxonomy file, the weights and the embedding model being fine).
C15_DegenerateInputsGiveZero ==
  /\ (/\ sret.op = "keyword"
      /\ sret.args.file = "ok"
      /\ sret.args.job_role \in KnownRoles) =>
        /\ RoleTotal(sret.args.job_role) = 0 =>
             /\ sret.res.outcome = "ok"
             /\ sret.res.score = 0
             /\ sret.res.details = <<>>
        /\ (sret.args.resume_text = <<>> \/ sret.args.resume_skills = <<>>) =>
             sret.res.outcome = "ok"
        /\ (sret.args.resume_text = <<>> /\ sret.args.resume_skills = <<>>) =>
             sret.res.score = 0
  /\ (/\ sret.op = "semantic"
      /\ BackendWorks
      /\ \/ sret.args.resume_text = <<>>
         \/ sret.args.weighted_skills = <<>>
         \/ SumWeights(sret.args.weighted_skills) = 0) =>
        /\ sret.res.outcome = "ok"
        /\ sret.res.score = 0
        /\ sret.res.explanations = <<>>
  /\ (/\ sret.op = "hybrid"
      /\ BackendWorks
      /\ sret.args.file = "ok"
      /\ sret.args.job_role \in KnownRoles
      /\ ~WeightsOffByMoreThanTolerance
      /\ \/ sret.args.resume_text = <<>>
         \/ RoleTotal(sret.args.job_role) = 0) =>
        /\ sret.res.outcome = "ok"
        /\ sret.res.final_score = 0
  /\ (/\ sret.op = "skill_gap"
      /\ sret.args.resume_text = <<>> \/ sret.args.required_skills = <<>>) =>
        /\ sret.res.outcome = "ok"
        /\ sret.res.matched = <<>>

\* C16: calculate_keyword_ats_score for a job_role that the taxonomy file
\* does not hold raises an error whose message names the available roles,
\* and returns no score.
C16_UnknownRoleNamesAvailableRoles ==
  (/\ sret.op = "keyword"
   /\ sret.args.file = "ok"
   /\ sret.args.job_role \notin KnownRoles) =>
     /\ sret.res.outcome # "ok"
     /\ sret.res.cause = "ValueError"
     /\ sret.res.names_roles
     /\ sret.res.score = None

\* the role "qa" is not in the taxonomy
C16_Witness ==
  /\ sret.op = "keyword"
  /\ sret.args.file = "ok"
  /\ sret.args.job_role = "qa"
  /\ sret.args.resume_skills # <<>>
  /\ sret.res.outcome = "RuntimeError"
  /\ sret.res.names_roles

\* C19: calculate_keyword_ats_score needs no embedding backend: the call
\* leaves the embedding cache, its counters and the model instance as they
\* were, and for a role of the taxonomy it returns its score whether or not
\* a model has been loaded.
C19_KeywordScoringLeavesEmbeddingsAlone ==
  sret.op = "keyword" =>
    /\ embedding_cache = sret.before.cache
    /\ cache_stats = sret.before.stats
    /\ model_instance = sret.before.instance
    /\ (sret.args.file = "ok" /\ sret.args.job_role \in KnownRoles) =>
         /\ sret.res.outcome = "ok"
         /\ sret.res.score \in 0..100

\* a keyword score returned while no model has ever been loaded
C19_Witness ==
  /\ sret.op = "keyword"
  /\ sret.res.outcome = "ok"
  /\ sret.res.score = 100
  /\ model_instance = None
  /\ embedding_cache = <<>>
  /\ cache_stats.hits + cache_stats.misses = 0

\* ------------------------------------------------------------------------
\* semantic/hybrid_ats.py : get_ats_improvement_suggestions and
\* compare_ats_scores
\* A suggestion is <<kind, skills it names>>.
\* ------------------------------------------------------------------------

\* keyword_details.get(key, []): keyword_details is {} for a taxonomy of
\* total weight 0
DetailOf(keyword_details, key) ==
  IF keyword_details = <<>> THEN <<>> ELSE keyword_details[key]

\* seq[:n]
FirstOf(seq, n) == SubSeq(seq, 1, IF Len(seq) < n THEN Len(seq) ELSE n)

\* the advice of one kind, given when its condition holds
Advice(kind, skills, given) == IF given THEN <<<<kind, skills>>>> ELSE <<>>

CoreAdvice(breakdown) ==
  Advice("core", FirstOf(DetailOf(breakdown.keyword_details, "missing_core"), 5),
         DetailOf(breakdown.keyword_details, "missing_core") # <<>>)

OptionalAdvice(breakdown) ==
  Advice("optional", FirstOf(DetailOf(breakdown.keyword_details, "missing_optional"), 3),
         DetailOf(breakdown.keyword_details, "missing_optional") # <<>>)

\* get_ats_improvement_suggestions(breakdown), for a breakdown that has the
\* keys hybrid_ats_score gives it
KeywordAdviceFirst(breakdown) ==
  CoreAdvice(breakdown) \o OptionalAdvice(breakdown)
  \o Advice("keyword", <<>>, breakdown.keyword_score < 50)
  \o Advice("semantic", <<>>, breakdown.semantic_score < 50)
  \o Advice("tailor", <<>>, breakdown.final_score < 60)

get_ats_improvement_suggestions(breakdown) ==
  CoreAdvice(breakdown) \o OptionalAdvice(breakdown)
  \o Advice("semantic", <<>>, breakdown.semantic_score < 50)
  \o Advice("keyword", <<>>, breakdown.keyword_score < 50)
  \o Advice("tailor", <<>>, breakdown.final_score < 60)

\* lines 230-239: the entry of a role, r being what hybrid_ats_score did
CompareEntry(r) ==
  IF r.outcome = "ok"
  THEN [score |-> r.final_score, breakdown |-> r.breakdown, has_error |-> FALSE]
  ELSE [score |-> 0, breakdown |-> <<>>, has_error |-> TRUE]

\* line 242: dict(sorted(results.items(), key=score, reverse=True)); the
\* sort is stable, equal scores keep their order
InsertionOrder(results) == results

SortByScore(results) ==
  [j \in 1..Len(results) |->
     results[CHOOSE k \in DOMAIN results :
               Cardinality({m \in DOMAIN results :
                              \/ results[m].val.score > results[k].val.score
                              \/ /\ results[m].val.score = results[k].val.score
                                 /\ m < k}) = j - 1]]

\* lines 223-239: the loop over job_roles from the i-th role on; calls lists
\* what hybrid_ats_score did for each role
RECURSIVE CompareLoop(_, _, _, _, _, _, _, _, _, _, _)
RECURSIVE CompareStep(_, _, _, _, _, _, _, _, _)
CompareLoop(c, st, instance, resume_text, resume_skills, job_roles, file, loadOk, inferOk, i, acc) ==
  IF i > Len(job_roles)
  THEN [cache |-> c, stats |-> st, instance |-> instance,
        results |-> acc.results, calls |-> acc.calls]
  ELSE CompareStep(hybrid_ats_score(c, st, instance, resume_text, resume_skills,
                                    job_roles[i], KEYWORD_WEIGHT,
                                    SEMANTIC_WEIGHT, file, loadOk, inferOk),
                   resume_text, resume_skills, job_roles, file, loadOk,
                   inferOk, i, acc)

CompareStep(r, resume_text, resume_skills, job_roles, file, loadOk, inferOk, i, acc) ==
  CompareLoop(r.cache, r.stats, r.instance, resume_text, resume_skills,
              job_roles, file, loadOk, inferOk, i + 1,
              [results |-> SetItem(acc.results, job_roles[i], CompareEntry(r)),
               calls |-> Append(acc.calls, [role |-> job_roles[i],
                                            outcome |-> r.outcome,
                                            final_score |-> r.final_score])])

\* what compare_ats_scores returns, l being the outcome of its loop
CompareResult(l) ==
  [cache |-> l.cache, stats |-> l.stats, instance |-> l.instance,
   outcome |-> "ok", results |-> SortByScore(l.results), calls |-> l.calls]

\* compare_ats_scores(resume_text, resume_skills, job_roles)
compare_ats_scores(c, st, instance, resume_text, resume_skills, job_roles, file, loadOk, inferOk) ==
  CompareResult(CompareLoop(c, st, instance, resume_text, resume_skills,
                            job_roles, file, loadOk, inferOk, 1,
                            [results |-> <<>>, calls |-> <<>>]))


\* ------------------------------------------------------------------------
\* utils/ats_score.py : calculate_ats_score
\* ------------------------------------------------------------------------

\* lines 28-39: skill in set(resume_skills), the names compared as given
MatchedExactly(d, resume_skills) ==
  SelectSeq(d, LAMBDA kv : \E i \in DOMAIN resume_skills : resume_skills[i] = kv[1])

MissingExactly(d, resume_skills) ==
  KeysOf(SelectSeq(d, LAMBDA kv : \A i \in DOMAIN resume_skills : resume_skills[i] # kv[1]))

\* line 45: sum(1 for k in keywords if k in cleaned_text)
KeywordHits(keywords, cleaned_text) ==
  Len(SelectSeq(keywords, LAMBDA k : IsSubstring(k, cleaned_text)))

\* lines 16-48, role_data being the entry of the role
RoleScore(role_data, resume_skills, cleaned_text) ==
  IF SumWeights(role_data.core) + SumWeights(role_data.optional) = 0
  THEN [outcome |-> "ZeroDivisionError", ats_score |-> None, coverage |-> None,
        missing_core |-> <<>>, missing_optional |-> <<>>, keywords |-> <<>>]
  ELSE [outcome |-> "ok",
        ats_score |-> PyPercent(SumWeights(MatchedExactly(role_data.core, resume_skills))
                                + SumWeights(MatchedExactly(role_data.optional, resume_skills)),
                                SumWeights(role_data.core) + SumWeights(role_data.optional)),
        coverage |-> PyPercent(KeywordHits(KeysOf(role_data.core) \o KeysOf(role_data.optional),
                                           cleaned_text),
                               Len(role_data.core) + Len(role_data.optional)),
        missing_core |-> MissingExactly(role_data.core, resume_skills),
        missing_optional |-> MissingExactly(role_data.optional, resume_skills),
        keywords |-> KeysOf(role_data.core) \o KeysOf(role_data.optional)]

\* calculate_ats_score(job_role, resume_skills, cleaned_text, ats_file)
calculate_ats_score(job_role, resume_skills, cleaned_text, file) ==
  IF file # "ok"
  THEN [outcome |-> "FileNotFoundError", ats_score |-> None, coverage |-> None,
        missing_core |-> <<>>, missing_optional |-> <<>>, keywords |-> <<>>]
  ELSE IF job_role \notin KnownRoles
  THEN [outcome |-> "ok", ats_score |-> 0, coverage |-> 0,
        missing_core |-> <<>>, missing_optional |-> <<>>, keywords |-> <<>>]
  ELSE RoleScore(ats_data[job_role], resume_skills, cleaned_text)

\* ------------------------------------------------------------------------
\* analyzers/ats_analyzer.py
\* ------------------------------------------------------------------------

EXCELLENT_SCORE == 80

GOOD_SCORE == 60

FAIR_SCORE == 40

get_compatibility_level(score) ==
  IF score >= EXCELLENT_SCORE THEN "Excellent"
  ELSE IF score >= GOOD_SCORE THEN "Good"
  ELSE IF score >= FAIR_SCORE THEN "Fair"
  ELSE "Poor"

\* in percent
calculate_pass_probability(score) ==
  IF score >= 80 THEN 95
  ELSE IF score >= 70 THEN 85
  ELSE IF score >= 60 THEN 70
  ELSE IF score >= 50 THEN 50
  ELSE IF score >= 40 THEN 30
  ELSE 15

\* lines 17-56, r being what hybrid_ats_score did: any exception becomes a
\* dict with ats_score 0 and an 'error' entry
AnalysisOf(r, job_role) ==
  IF r.outcome # "ok"
  THEN [ats_score |-> 0, compatibility_level |-> "Unknown", has_error |-> TRUE,
        missing_core_skills |-> <<>>, suggestions |-> <<>>,
        pass_probability |-> None]
  ELSE [ats_score |-> r.final_score,
        compatibility_level |-> get_compatibility_level(r.final_score),
        has_error |-> FALSE,
        missing_core_skills |-> DetailOf(r.breakdown.keyword_details, "missing_core"),
        suggestions |-> get_ats_improvement_suggestions(r.breakdown),
        pass_probability |-> calculate_pass_probability(r.final_score)]

AnalyzeResult(r, job_role) ==
  [cache |-> r.cache, stats |-> r.stats, instance |-> r.instance,
   outcome |-> "ok", scoring |-> r.outcome, analysis |-> AnalysisOf(r, job_role)]

\* analyze_ats_compatibility(resume_text, resume_skills, job_role)
analyze_ats_compatibility(c, st, instance, resume_text, resume_skills, job_role, file, loadOk, inferOk) ==
  AnalyzeResult(hybrid_ats_score(c, st, instance, resume_text, resume_skills,
                                 job_role, KEYWORD_WEIGHT, SEMANTIC_WEIGHT,
                                 file, loadOk, inferOk),
                job_role)

\* the characters check_ats_format_compliance warns about, each one element
\* of a text
SpecialChars == {"(bullet)", "(diamond)", "(square)", "(circle)", "(small square)"}

TabChar == "(tab)"

\* len(resume_text.split())
WordCount(text) ==
  Cardinality({i \in DOMAIN text :
                 text[i] # " " /\ (i = 1 \/ text[i - 1] = " ")})

CountOfIssues(resume_text) == IF WordCount(resume_text) < 200 THEN 1 ELSE 0

CountOfWarnings(resume_text) ==
  Cardinality({ch \in SpecialChars : \E i \in DOMAIN resume_text : resume_text[i] = ch})
  + (IF \E i \in DOMAIN resume_text : resume_text[i] = TabChar THEN 1 ELSE 0)
  + (IF WordCount(resume_text) > 2000 THEN 1 ELSE 0)

\* check_ats_format_compliance(resume_text)
check_ats_format_compliance(resume_text) ==
  [compliance_score |->
     IF 100 - 15 * CountOfIssues(resume_text) - 5 * CountOfWarnings(resume_text) < 0
     THEN 0
     ELSE 100 - 15 * CountOfIssues(resume_text) - 5 * CountOfWarnings(resume_text),
   issues |-> CountOfIssues(resume_text),
   warnings |-> CountOfWarnings(resume_text),
   is_compliant |-> CountOfIssues(resume_text) = 0]

\* line 173: int(ats_score * 0.7 + compliance_score * 0.3), which for scores
\* of 0..100 is the floor of the exact value
OverallScore(ats_score, compliance_score) ==
  (7 * ats_score + 3 * compliance_score) \div 10

\* lines 161-187, a being what analyze_ats_compatibility did
ReportOf(a, resume_text) ==
  [cache |-> a.cache, stats |-> a.stats, instance |-> a.instance,
   outcome |-> "ok", scoring |-> a.scoring,
   report |->
     [overall_score |-> OverallScore(a.analysis.ats_score,
                                     check_ats_format_compliance(resume_text).compliance_score),
      ats_analysis |-> a.analysis,
      format_analysis |-> check_ats_format_compliance(resume_text)]]

\* generate_ats_report(resume_text, resume_skills, job_role)
generate_ats_report(c, st, instance, resume_text, resume_skills, job_role, file, loadOk, inferOk) ==
  ReportOf(analyze_ats_compatibility(c, st, instance, resume_text,
                                     resume_skills, job_role, file, loadOk,
                                     inferOk),
           resume_text)


\* ------------------------------------------------------------------------
\* Calls of the reporting functions, made one at a time like the scoring
\* calls
\* ------------------------------------------------------------------------

\* job_roles of a comparison: up to MaxRoles roles, repeats allowed
MaxRoles == 2

RoleLists == UNION {[1..n -> JobRoles] : n \in 0..MaxRoles}

\* six skill names, one more than a suggestion lists
ManySkills == <<SkillPy, SkillSq, SkillMl, <<"g", "o">>, <<"c">>, <<"r">>>>

KeywordDetails ==
  {<<>>} \cup
  {[missing_core |-> mc, missing_optional |-> mo] :
     mc \in {<<>>, <<SkillPy>>, ManySkills},
     mo \in {<<>>, <<SkillMl>>, SubSeq(ManySkills, 1, 4)}}

\* breakdowns as hybrid_ats_score builds them, on both sides of each limit
Breakdowns ==
  {[final_score |-> f, keyword_score |-> k, semantic_score |-> s,
    keyword_details |-> kd] :
     f \in {59, 60}, k \in {49, 50}, s \in {0, 49, 50, 100},
     kd \in KeywordDetails}

\* compare_ats_scores(resume_text, resume_skills, job_roles)
CompareCall(resume_text, resume_skills, job_roles, file, loadOk, inferOk) ==
  /\ Ready
  /\ LoadPossible(loadOk)
  /\ LET r == compare_ats_scores(embedding_cache, cache_stats, model_instance,
                                 resume_text, resume_skills, job_roles, file,
                                 loadOk, inferOk)
     IN  /\ embedding_cache' = r.cache
         /\ cache_stats' = r.stats
         /\ model_instance' = r.instance
         /\ sret' = [op |-> "compare",
                     args |-> [resume_text |-> resume_text,
                               resume_skills |-> resume_skills,
                               job_roles |-> job_roles, file |-> file,
                               loadOk |-> loadOk, inferOk |-> inferOk],
                     res |-> [outcome |-> r.outcome, results |-> r.results,
                              calls |-> r.calls],
                     before |-> Snapshot]
  /\ ScoreFrame

ReportArgs(resume_text, resume_skills, job_role, file, loadOk, inferOk) ==
  [resume_text |-> resume_text, resume_skills |-> resume_skills,
   job_role |-> job_role, file |-> file, loadOk |-> loadOk, inferOk |-> inferOk]

\* analyze_ats_compatibility(resume_text, resume_skills, job_role)
AnalyzeCall(resume_text, resume_skills, job_role, file, loadOk, inferOk) ==
  /\ Ready
  /\ LoadPossible(loadOk)
  /\ LET r == analyze_ats_compatibility(embedding_cache, cache_stats,
                                        model_instance, resume_text,
                                        resume_skills, job_role, file,
                                        loadOk, inferOk)
     IN  /\ embedding_cache' = r.cache
         /\ cache_stats' = r.stats
         /\ model_instance' = r.instance
         /\ sret' = [op |-> "analyze",
                     args |-> ReportArgs(resume_text, resume_skills, job_role,
                                         file, loadOk, inferOk),
                     res |-> [outcome |-> r.outcome, scoring |-> r.scoring,
                              score |-> r.analysis.ats_score,
                              numeric |-> TRUE,
                              analysis |-> r.analysis],
                     before |-> Snapshot]
  /\ ScoreFrame

\* generate_ats_report(resume_text, resume_skills, job_role)
ReportCall(resume_text, resume_skills, job_role, file, loadOk, inferOk) ==
  /\ Ready
  /\ LoadPossible(loadOk)
  /\ LET r == generate_ats_report(embedding_cache, cache_stats, model_instance,
                                  resume_text, resume_skills, job_role, file,
                                  loadOk, inferOk)
     IN  /\ embedding_cache' = r.cache
         /\ cache_stats' = r.stats
         /\ model_instance' = r.instance
         /\ sret' = [op |-> "report",
                     args |-> ReportArgs(resume_text, resume_skills, job_role,
                                         file, loadOk, inferOk),
                     res |-> [outcome |-> r.outcome, scoring |-> r.scoring,
                              score |-> r.report.overall_score,
                              numeric |-> TRUE,
                              report |-> r.report],
                     before |-> Snapshot]
  /\ ScoreFrame

\* calculate_ats_score(job_role, resume_skills, cleaned_text)
AtsScoreCall(job_role, resume_skills, cleaned_text, file) ==
  /\ Ready
  /\ LET r == calculate_ats_score(job_role, resume_skills, cleaned_text, file)
     IN  sret' = [op |-> "ats_score",
                  args |-> [job_role |-> job_role,
                            resume_skills |-> resume_skills,
                            resume_text |-> cleaned_text, file |-> file],
                  res |-> [outcome |-> r.outcome,
                           scoring |-> IF file # "ok" \/ job_role \notin KnownRoles
                                       THEN "failed" ELSE r.outcome,
                           score |-> r.ats_score,
                           numeric |-> r.outcome = "ok", result |-> r],
                  before |-> Snapshot]
  /\ UNCHANGED <<embedding_cache, cache_stats, model_instance>>
  /\ ScoreFrame

\* get_ats_improvement_suggestions(breakdown)
SuggestCall(breakdown) ==
  /\ Ready
  /\ sret' = [op |-> "suggest",
              args |-> [breakdown |-> breakdown],
              res |-> [outcome |-> "ok",
                       suggestions |-> get_ats_improvement_suggestions(breakdown)],
              before |-> Snapshot]
  /\ UNCHANGED <<embedding_cache, cache_stats, model_instance>>
  /\ ScoreFrame

InitReport ==
  /\ Fresh
  /\ target = "module"

NextReport ==
  \/ \E text \in AllTexts : Precompute(text)
  \/ \E resume_text \in ResumeInputs, resume_skills \in SkillLists,
        job_roles \in RoleLists, file \in FileStates,
        loadOk, inferOk \in BOOLEAN :
       CompareCall(resume_text, resume_skills, job_roles, file, loadOk, inferOk)
  \/ \E resume_text \in ResumeInputs, resume_skills \in SkillLists,
        job_role \in JobRoles, file \in FileStates, loadOk, inferOk \in BOOLEAN :
       AnalyzeCall(resume_text, resume_skills, job_role, file, loadOk, inferOk)
  \/ \E resume_text \in ResumeInputs, resume_skills \in SkillLists,
        job_role \in JobRoles, file \in FileStates, loadOk, inferOk \in BOOLEAN :
       ReportCall(resume_text, resume_skills, job_role, file, loadOk, inferOk)
  \/ \E job_role \in JobRoles, resume_skills \in SkillLists,
        cleaned_text \in ResumeInputs, file \in FileStates :
       AtsScoreCall(job_role, resume_skills, cleaned_text, file)
  \/ \E breakdown \in Breakdowns : SuggestCall(breakdown)
  \/ ScoreReturn

SpecReport == InitReport /\ [][NextReport]_vars


\* ------------------------------------------------------------------------
\* Reporting properties
\* ------------------------------------------------------------------------

\* the entry results[role] of a comparison
EntryOf(results, role) == results[CHOOSE i \in DOMAIN results : results[i].key = role].val

\* C17: compare_ats_scores always returns; the result has exactly one entry
\* for every role of job_roles, the entry of a role whose hybrid scoring
\* failed has score 0 and an error note (that of a scored role has its score
\* and no note), and the entries are in order of non-increasing score.
C17_ComparisonToleratesFailingRoles ==
  sret.op = "compare" =>
    /\ sret.res.outcome = "ok"
    /\ Len(sret.res.calls) = Len(sret.args.job_roles)
    /\ {sret.res.results[i].key : i \in DOMAIN sret.res.results}
         = Range(sret.args.job_roles)
    /\ Len(sret.res.results) = Cardinality(Range(sret.args.job_roles))
    /\ \A k \in DOMAIN sret.res.calls :
         /\ sret.res.calls[k].role = sret.args.job_roles[k]
         /\ IF sret.res.calls[k].outcome # "ok"
            THEN /\ EntryOf(sret.res.results, sret.res.calls[k].role).score = 0
                 /\ EntryOf(sret.res.results, sret.res.calls[k].role).has_error
            ELSE /\ EntryOf(sret.res.results, sret.res.calls[k].role).score
                      = sret.res.calls[k].final_score
                 /\ ~EntryOf(sret.res.results, sret.res.calls[k].role).has_error
    /\ \A i, j \in DOMAIN sret.res.results :
         i < j => sret.res.results[i].val.score >= sret.res.results[j].val.score

\* a comparison of a failing role given first and a role scored above 0:
\* the failing role has its entry, after the scored one
C17_Witness ==
  /\ sret.op = "compare"
  /\ Len(sret.args.job_roles) = 2
  /\ sret.res.calls[1].outcome # "ok"
  /\ sret.res.calls[2].outcome = "ok"
  /\ sret.res.calls[2].final_score > 0
  /\ sret.res.results[1].key = sret.args.job_roles[2]
  /\ sret.res.results[2].key = sret.args.job_roles[1]
  /\ sret.res.results[2].val.has_error

ReportingOps == {"ats_score", "analyze", "report"}

\* the scoring behind the call could not be done: unknown role, unreadable
\* taxonomy or model error (an empty resume text is not counted here)
ScoringFailed ==
  /\ sret.op \in ReportingOps
  /\ sret.args.resume_text # <<>>
  /\ \/ sret.args.file # "ok"
     \/ sret.args.job_role \notin KnownRoles
     \/ sret.res.scoring = "RuntimeError"

\* C18: when the scoring behind calculate_ats_score, analyze_ats_compatibility
\* or generate_ats_report fails, the caller gets a failure (an exception or a
\* result without a number for the score), never a number.
C18_ScoringFailureIsExplicit ==
  ScoringFailed => (sret.res.outcome # "ok" \/ ~sret.res.numeric)

SuggestionKinds == <<"core", "optional", "semantic", "keyword", "tailor">>

\* the condition of each kind of suggestion
Applies(kind, breakdown) ==
  CASE kind = "core" ->
         /\ breakdown.keyword_details # <<>>
         /\ breakdown.keyword_details.missing_core # <<>>
    [] kind = "optional" ->
         /\ breakdown.keyword_details # <<>>
         /\ breakdown.keyword_details.missing_optional # <<>>
    [] kind = "semantic" -> breakdown.semantic_score < 50
    [] kind = "keyword" -> breakdown.keyword_score < 50
    [] kind = "tailor" -> breakdown.final_score < 60

\* C20: get_ats_improvement_suggestions leaves the embedding store, its
\* counters and the model as they were and returns at most five suggestions:
\* exactly those whose condition holds for the breakdown, in the order core,
\* optional, semantic, keyword, tailoring.
C20_SuggestionsInFixedOrder ==
  sret.op = "suggest" =>
    /\ Len(sret.res.suggestions) <= 5
    /\ [i \in DOMAIN sret.res.suggestions |-> sret.res.suggestions[i][1]]
         = SelectSeq(SuggestionKinds,
                     LAMBDA kind : Applies(kind, sret.args.breakdown))
    /\ \A i \in DOMAIN sret.res.suggestions :
         /\ sret.res.suggestions[i][1] = "core" =>
              /\ Len(sret.res.suggestions[i][2]) <= 5
              /\ sret.res.suggestions[i][2]
                   = FirstOf(sret.args.breakdown.keyword_details.missing_core, 5)
         /\ sret.res.suggestions[i][1] = "optional" =>
              /\ Len(sret.res.suggestions[i][2]) <= 3
              /\ sret.res.suggestions[i][2]
                   = FirstOf(sret.args.breakdown.keyword_details.missing_optional, 3)
    /\ embedding_cache = sret.before.cache
    /\ cache_stats = sret.before.stats
    /\ model_instance = sret.before.instance

\* every condition holds, with more missing skills than a suggestion names:
\* all five suggestions are returned
C20_Witness ==
  /\ sret.op = "suggest"
  /\ Len(sret.res.suggestions) = 5
  /\ sret.args.breakdown.keyword_details.missing_core = ManySkills
  /\ Len(sret.res.suggestions[1][2]) = 5
  /\ sret.res.suggestions[3][1] = "semantic"
  /\ sret.res.suggestions[4][1] = "keyword"


\* ------------------------------------------------------------------------
\* Error classes of the scorers
\* ------------------------------------------------------------------------

ScorerOps == {"keyword", "semantic", "hybrid"}

\* the exception types the scorers raise when the model cannot be loaded or
\* model.encode raises, on a process that has embedded nothing yet
ModelErrorTypes ==
  {semantic_ats_score(<<>>, ClearedStats, None, ResumeA, ws, SEMANTIC_SIMILARITY_THRESHOLD, loadOk, inferOk).outcome :
     ws \in {ats_data[r].core : r \in KnownRoles \ {"blank"}},
     loadOk \in BOOLEAN, inferOk \in {FALSE}}
  \cup
  {hybrid_ats_score(<<>>, ClearedStats, None, ResumeA, <<>>, "ml", KEYWORD_WEIGHT, SEMANTIC_WEIGHT, "ok", loadOk, inferOk).outcome :
     loadOk \in BOOLEAN, inferOk \in {FALSE}}

\* the last scorer call failed for its configuration: a role that is not in
\* the taxonomy, a taxonomy file that cannot be read, or weights that do not
\* sum to 1.0 (the resume text being usable)
ConfigurationError ==
  /\ sret.op \in ScorerOps
  /\ sret.res.outcome # "ok"
  /\ sret.args.resume_text # <<>>
  /\ \/ /\ sret.op = "keyword"
        /\ (sret.args.job_role \notin KnownRoles \/ sret.args.file # "ok")
     \/ /\ sret.op = "hybrid"
        /\ sret.res.error \in {"role", "weights", "keyword"}

\* C21: a scorer never reports a configuration error (unknown job role,
\* unreadable or malformed taxonomy, bad weights) with an exception type
\* that it also uses for a model or embedding failure.
C21_ErrorClassesDistinct ==
  ConfigurationError => sret.res.outcome \notin ModelErrorTypes


\* ------------------------------------------------------------------------
\* Ownership of the vectors handed to callers.
\* get_cached_embedding returns _embedding_cache[key] (cache.py line 41) and
\* EmbeddingCache.get returns self.cache[key] (line 170): the ndarray in the
\* store itself.  embed_text returns np.array([emb for _, emb in embeddings])
\* (embeddings.py line 93), a new array holding copies, or its row 0.
\* ------------------------------------------------------------------------

\* what an in-place change by the caller (v *= 2) makes of a vector
Mutated(embedding) == <<embedding[1], embedding[2], "changed by caller">>

\* the object a get returns is the one in the store
ReturnedByGet(c, key) == [vec |-> GetItem(c, key), stored_at |-> key]

\* the array embed_text returns is built by the call
ReturnedByEmbed(result) == [vec |-> result, stored_at |-> None]

\* the store after the holder of an object changed it in place
AfterMutation(c, held) ==
  IF held.stored_at # None /\ HasKey(c, held.stored_at)
  THEN SetItem(c, held.stored_at, Mutated(held.vec))
  ELSE c

\* the caller of the last get, a hit, changes the vector it was given
MutateGot ==
  /\ ret.op = "get"
  /\ ret.result # None
  /\ IF target = "module"
     THEN /\ embedding_cache' =
               AfterMutation(embedding_cache,
                             ReturnedByGet(embedding_cache, hash_text(ret.text)))
          /\ UNCHANGED cache
     ELSE /\ cache' = AfterMutation(cache, ReturnedByGet(cache, hash_text(ret.text)))
          /\ UNCHANGED embedding_cache
  /\ ret' = [op |-> "mutated", text |-> ret.text,
             result |-> Mutated(ret.result), original |-> ret.result,
             popped |-> None, before |-> ret.before,
             statsBefore |-> ret.statsBefore, lruBefore |-> ret.lruBefore]
  /\ UNCHANGED <<cache_stats, stats, target, recency, threadVars, embedVars,
                 scoreVars>>

\* the caller of the last embed_text changes every vector it was given
MutateEmbedded ==
  /\ eret.op = "embed"
  /\ eret.outcome = "ok"
  /\ eret.result # <<>>
  /\ embedding_cache' = AfterMutation(embedding_cache, ReturnedByEmbed(eret.result))
  /\ eret' = [op |-> "mutated", texts |-> eret.texts,
              is_single |-> eret.is_single, normalize |-> eret.normalize,
              use_cache |-> eret.use_cache, outcome |-> "ok",
              result |-> [i \in DOMAIN eret.result |-> Mutated(eret.result[i])],
              original |-> eret.result,
              inferred |-> eret.inferred, batch |-> eret.batch,
              hits |-> eret.hits, misses |-> eret.misses]
  /\ UNCHANGED <<cache_stats, model_instance, eprev>>
  /\ EmbedFrame

AliasTexts == {SkillPy, SkillSq}

AliasLists == UNION {[1..n -> AliasTexts] : n \in 1..MaxBatch}

InitAlias ==
  /\ Fresh
  /\ target \in {"module", "class"}

NextAlias ==
  \/ \E text \in AliasTexts : ModGet(text)
  \/ \E text \in AliasTexts : ModSet(text, Encode(text, TRUE))
  \/ \E text \in AliasTexts : ClsGet(text)
  \/ \E text \in AliasTexts : ClsSet(text, Encode(text, TRUE))
  \/ MutateGot
  \/ \E texts \in AliasLists : \E is_single, use_cache \in BOOLEAN :
       /\ target = "module"
       /\ ret.op # "get"
       /\ EmbedCall(texts, is_single, TRUE, use_cache, TRUE, TRUE)
  \/ MutateEmbedded

SpecAlias == InitAlias /\ [][NextAlias]_vars

\* C22: after a caller changed in place a vector it got from a cache get or
\* from embed_text, a get or an embed of the same text still returns the
\* vector as it was before the change.
C22_ValueSemantics ==
  /\ ret.op = "mutated" => TargetGet(ret.text).result = ret.original
  /\ eret.op = "mutated" =>
       embed_text(embedding_cache, cache_stats, model_instance, eret.texts,
                  eret.normalize, eret.use_cache, TRUE, TRUE).result
         = eret.original


\* ------------------------------------------------------------------------
\* Frame properties of the direct cache calls
\* ------------------------------------------------------------------------

\* the hit and miss counters of the cache the direct calls address
TargetCounters == [hits |-> TargetStats.hits, misses |-> TargetStats.misses]

FirstIn(batch, i) == CHOOSE k \in 1..i : batch[k] = batch[i] /\ \A j \in 1..(k - 1) : batch[j] # batch[i]

\* C24: an embed_text call that uses the cache and has the model (the load
\* did not fail) runs model inference only for a non-empty batch, and its
\* one batch holds exactly the texts whose lookup missed, in input order;
\* with every text a hit there is no inference.
\* When the call returns, each text of the batch that fewer than
\* EMBEDDING_CACHE_SIZE later stores followed is cached with the vector
\* computed for it.
C24_OneBatchOfMisses ==
  [][(/\ eret'.op = "embed"
      /\ eret'.use_cache
      /\ (eret'.outcome = "ok" \/ eret'.inferred)) =>
       /\ eret'.batch
            = SelectSeq(eret'.texts,
                        LAMBDA t : ~HasKey(embedding_cache, hash_text(t)))
       /\ Len(eret'.batch) = eret'.misses
       /\ eret'.hits + eret'.misses = Len(eret'.texts)
       /\ eret'.inferred = (eret'.batch # <<>>)
       /\ eret'.outcome = "ok" =>
            \A i \in DOMAIN eret'.batch :
              Len(eret'.batch) - FirstIn(eret'.batch, i) < EMBEDDING_CACHE_SIZE =>
                /\ HasKey(embedding_cache', hash_text(eret'.batch[i]))
                /\ GetItem(embedding_cache', hash_text(eret'.batch[i]))
                     = Encode(eret'.batch[i], eret'.normalize)]_vars

\* a call whose first text was cached and whose second was not: inference
\* ran on the second text alone, which is now the newest cached entry
C24_Witness ==
  /\ eret.op = "embed"
  /\ eret.outcome = "ok"
  /\ eret.use_cache
  /\ Len(eret.texts) = 2
  /\ eret.hits = 1
  /\ eret.inferred
  /\ eret.batch = <<eret.texts[2]>>
  /\ embedding_cache[Len(embedding_cache)].key = hash_text(eret.texts[2])


\* ------------------------------------------------------------------------
\* The semantic score
\* ------------------------------------------------------------------------

SemanticReturned == sret.op = "semantic" /\ sret.res.outcome = "ok"

\* the weighted skills whose similarity to the resume text is at least the
\* threshold, in the order of weighted_skills
SkillsAtOrAbove(resume_text, weighted_skills, threshold) ==
  SelectSeq(weighted_skills,
            LAMBDA kv : cosine_similarity(Encode(resume_text, TRUE),
                                          Encode(kv[1], TRUE)) >= threshold)

\* C25: for weighted skills of total weight > 0, semantic_ats_score returns
\* floor(100 * gained / total_weight), gained being the sum of the weights
\* of the skills whose similarity is >= threshold, and its explanations name
\* exactly those skills, in the order of weighted_skills.
C25_SemanticScoreIsFloor ==
  (SemanticReturned /\ SumWeights(sret.args.weighted_skills) > 0) =>
    /\ sret.res.score =
         (100 * SumWeights(SkillsAtOrAbove(sret.args.resume_text,
                                           sret.args.weighted_skills,
                                           sret.args.threshold)))
         \div SumWeights(sret.args.weighted_skills)
    /\ [i \in DOMAIN sret.res.explanations |-> sret.res.explanations[i][1]]
         = KeysOf(SkillsAtOrAbove(sret.args.resume_text,
                                  sret.args.weighted_skills,
                                  sret.args.threshold))


\* C26: semantic_ats_score called with a resume text and no weighted skills
\* returns (0, []) and leaves the model unloaded or as it was, the embedding
\* store and its hit, miss and size counters untouched, with no inference.
C26_NoSkillsNoEmbedding ==
  (/\ sret.op = "semantic"
   /\ sret.args.weighted_skills = <<>>
   /\ sret.args.resume_text # <<>>)
  => /\ sret.res.outcome = "ok"
     /\ sret.res.score = 0
     /\ sret.res.explanations = <<>>
     /\ sret.res.inferred = 0
     /\ embedding_cache = sret.before.cache
     /\ cache_stats = sret.before.stats
     /\ model_instance = sret.before.instance

\* the call returned 0 in a process whose model is not loaded and could not
\* have been loaded
C26_Witness ==
  /\ sret.op = "semantic"
  /\ sret.args.weighted_skills = <<>>
  /\ sret.args.resume_text = ResumeB
  /\ ~sret.args.loadOk
  /\ model_instance = None
  /\ embedding_cache = <<>>
  /\ sret.res.score = 0


\* ------------------------------------------------------------------------
\* The model singleton
\* ------------------------------------------------------------------------

\* a direct call of get_model()
GetModelCall(loadOk) ==
  /\ sret' = [op |-> "get_model",
              args |-> [loadOk |-> loadOk],
              res |-> get_model(model_instance, loadOk),
              before |-> [instance |-> model_instance]]
  /\ model_instance' = get_model(model_instance, loadOk).instance
  /\ UNCHANGED <<embedding_cache, cache_stats>>
  /\ ScoreFrame

InitModel ==
  /\ Fresh
  /\ target = "module"

NextModel ==
  \/ \E loadOk \in BOOLEAN : GetModelCall(loadOk)
  \/ \E texts \in TextLists : \E is_single, use_cache, loadOk, inferOk \in BOOLEAN :
       EmbedCall(texts, is_single, TRUE, use_cache, loadOk, inferOk)
  \/ EmbedClear

SpecModel == InitModel /\ [][NextModel]_vars

\* what a get_model call did, given the singleton it found
LazyAndMemoized ==
  sret.op = "get_model" =>
    /\ sret.before.instance = None =>
         /\ sret.res.loaded
         /\ sret.res.raised = ~sret.args.loadOk
         /\ sret.res.instance = (IF sret.args.loadOk THEN Loaded ELSE None)
    /\ sret.before.instance # None =>
         /\ ~sret.res.loaded
         /\ ~sret.res.raised
         /\ sret.res.instance = sret.before.instance

\* how the singleton changes in a step
SingletonStep ==
  /\ model_instance # None => model_instance' = model_instance
  /\ model_instance' # model_instance =>
       \/ /\ sret'.op = "get_model"
          /\ sret'.res.loaded
          /\ model_instance' = sret'.res.instance
       \/ /\ eret'.op = "embed"
          /\ eret'.texts # <<>>
  /\ (model_instance # None /\ eret'.op = "embed" /\ eret' # eret) =>
       (eret'.outcome = "ok" \/ eret'.inferred)

\* C27: the model is not loaded when the process starts; a get_model call
\* that finds no instance loads, and if the load fails it raises and leaves
\* no instance, so that the next call loads again; once an instance exists
\* every get_model call, direct or inside embed_text, returns that instance
\* without loading, and the instance is never replaced or unset.
C27_ModelLoadedLazilyOnce ==
  /\ model_instance = None
  /\ []LazyAndMemoized
  /\ [][SingletonStep]_vars

\* an embed_text call failed to load the model, a later call loaded it, and
\* the last get_model call returned the instance although a load would fail
C27_Witness ==
  /\ sret.op = "get_model"
  /\ sret.before.instance = Loaded
  /\ ~sret.args.loadOk
  /\ ~sret.res.loaded
  /\ sret.res.instance = Loaded
  /\ eret.op = "embed"
  /\ eret.outcome = "RuntimeError"
  /\ ~eret.inferred


\* C28: a set of a text that is already cached removes no entry and keeps
\* the number of entries, whether or not the cache is at capacity; every
\* other entry keeps its embedding.
C28_OverwriteEvictsNothing ==
  (ret.op = "set" /\ HasKey(ret.before, hash_text(ret.text))) =>
    /\ ret.popped = None
    /\ Len(TargetCache) = Len(ret.before)
    /\ Keys(TargetCache) = Keys(ret.before)
    /\ \A i \in DOMAIN ret.before :
         ret.before[i].key # hash_text(ret.text) =>
           /\ HasKey(TargetCache, ret.before[i].key)
           /\ GetItem(TargetCache, ret.before[i].key) = ret.before[i].val


\* the last hybrid_ats_score call had an empty resume text, a job role that
\* get_available_job_roles() does not list, or weights not summing to 1.0
HybridInputsInvalid ==
  /\ sret.op = "hybrid"
  /\ \/ sret.args.resume_text = <<>>
     \/ sret.args.job_role \notin get_available_job_roles(sret.args.file)
     \/ WeightsRejected(sret.args.keyword_weight, sret.args.semantic_weight)

\* C29: a hybrid_ats_score call with invalid input or configuration raises
\* ValueError without scoring: no model inference, the model singleton, the
\* embedding store (entries and their order) and its counters are as before.
C29_RejectedCallTouchesNothing ==
  HybridInputsInvalid =>
    /\ sret.res.outcome = "ValueError"
    /\ sret.res.inferred = 0
    /\ embedding_cache = sret.before.cache
    /\ cache_stats = sret.before.stats
    /\ model_instance = sret.before.instance

\* a call with a known role and a usable text is rejected for its weights
\* while an embedding is cached: the entry and the counters are untouched
C29_Witness ==
  /\ HybridInputsInvalid
  /\ sret.res.error = "weights"
  /\ sret.args.loadOk
  /\ sret.args.inferOk
  /\ Len(sret.before.cache) = 1
  /\ embedding_cache = sret.before.cache
  /\ cache_stats.misses = 1


\* ------------------------------------------------------------------------
\* The hit and miss counters
\* ------------------------------------------------------------------------

Lookups == TargetStats.hits + TargetStats.misses

\* an empty store answers every get with absent
EmptyStoreMisses ==
  TargetCache = <<>> => \A text \in AllTexts : TargetGet(text).result = None

\* what one call does to the counters: a get adds exactly one lookup (and on
\* an empty store returns absent and leaves it empty), a set changes neither
\* counter, a clear sets both to 0 and empties the store
CounterStep ==
  /\ ret'.op = "get" =>
       /\ Lookups' = Lookups + 1
       /\ TargetStats'.hits >= TargetStats.hits
       /\ TargetStats'.misses >= TargetStats.misses
       /\ TargetCache = <<>> => (ret'.result = None /\ TargetCache' = <<>>)
  /\ ret'.op = "set" =>
       /\ TargetStats'.hits = TargetStats.hits
       /\ TargetStats'.misses = TargetStats.misses
  /\ ret'.op = "clear" =>
       /\ TargetStats'.hits = 0
       /\ TargetStats'.misses = 0
       /\ TargetCache' = <<>>

\* C30: the counters start at 0, every get adds one to hits + misses, a set
\* changes neither counter and a clear resets both to 0 and empties the
\* store, so that hits + misses is the number of gets since the last clear
\* (or since the start) and every get on the cleared store returns absent
\* until a set stores something.
C30_CountersCountGets ==
  /\ Lookups = 0
  /\ []EmptyStoreMisses
  /\ [][CounterStep]_vars

\* a clear has just emptied a store that held entries and reset counters
\* that had counted both a hit and a miss
C30_Witness ==
  /\ ret.op = "clear"
  /\ ret.before # <<>>
  /\ ret.statsBefore.hits > 0
  /\ ret.statsBefore.misses > 0
  /\ TargetCache = <<>>
  /\ Lookups = 0

====
